---------------------------- MODULE Spec2Model ----------------------------
(***************************************************************************)
(* ImageDecryptService (electron/services/imageDecryptService.ts, current  *)
(* revision): the output cache, the in-flight table, the update watcher    *)
(* and the startup index, as a state machine over a small file system.     *)
(*                                                                         *)
(* Strings are sequences of one-character strings, so that the name        *)
(* predicates (normalizeDatBase, isThumbnailPath, ...) are computed as the *)
(* code computes them.  A path is a record [dir, name]: join(dir, name).   *)
(*                                                                         *)
(* Scheduling is that of the JavaScript event loop: a synchronous segment  *)
(* runs to its next await; promise continuations are microtasks, run in    *)
(* FIFO order (mq) before any I/O completion is delivered.                 *)
(***************************************************************************)
EXTENDS Integers, Sequences, FiniteSets, TLC

(***************************************************************************)
(* Strings                                                                 *)
(***************************************************************************)
UpperChars == <<"A","B","C","D","E","F","G","H","I","J","K","L","M",
                "N","O","P","Q","R","S","T","U","V","W","X","Y","Z">>
LowerChars == <<"a","b","c","d","e","f","g","h","i","j","k","l","m",
                "n","o","p","q","r","s","t","u","v","w","x","y","z">>
DigitChars == {"0","1","2","3","4","5","6","7","8","9"}
HexLetters == {"a","b","c","d","e","f","A","B","C","D","E","F"}

IsLowerAlpha(ch) == \E i \in 1..26 : LowerChars[i] = ch

LowerChar(ch) ==
  IF \E i \in 1..26 : UpperChars[i] = ch
  THEN LowerChars[CHOOSE i \in 1..26 : UpperChars[i] = ch]
  ELSE ch

\* String.prototype.toLowerCase
toLowerCase(s) == [i \in 1..Len(s) |-> LowerChar(s[i])]

\* String.prototype.endsWith / startsWith / includes
endsWith(s, suf) ==
  /\ Len(suf) <= Len(s)
  /\ SubSeq(s, Len(s) - Len(suf) + 1, Len(s)) = suf

startsWith(s, pre) ==
  /\ Len(pre) <= Len(s)
  /\ SubSeq(s, 1, Len(pre)) = pre

includes(s, sub) ==
  \E i \in 1..(Len(s) - Len(sub) + 1) : SubSeq(s, i, i + Len(sub) - 1) = sub

\* s.slice(0, -n)
dropLast(s, n) == SubSeq(s, 1, Len(s) - n)

ExtDat  == <<".","d","a","t">>
ExtJpg  == <<".","j","p","g">>
ExtJpeg == <<".","j","p","e","g">>
ExtPng  == <<".","p","n","g">>
ExtGif  == <<".","g","i","f">>
ExtWebp == <<".","w","e","b","p">>

\* const extensions = ['.jpg', '.jpeg', '.png', '.gif', '.webp']
extensions == <<ExtJpg, ExtJpeg, ExtPng, ExtGif, ExtWebp>>

\* path.extname of a base name: from the last dot, unless there is none or
\* it is the first character
LastDot(s) ==
  IF \E i \in 1..Len(s) : s[i] = "."
  THEN CHOOSE i \in 1..Len(s) : s[i] = "." /\ \A j \in (i+1)..Len(s) : s[j] # "."
  ELSE 0

extname(s) == IF LastDot(s) <= 1 THEN <<>> ELSE SubSeq(s, LastDot(s), Len(s))

(***************************************************************************)
(* Paths                                                                   *)
(***************************************************************************)
NoPath == [dir |-> "", name |-> <<>>]
join(d, n) == [dir |-> d, name |-> n]
basename(p) == p.name
dirname(p) == p.dir

(***************************************************************************)
(* Name predicates of the service                                          *)
(***************************************************************************)
Md5MinLen == 16
Md5MaxLen == 32

\* /^[a-fA-F0-9]{16,32}$/
looksLikeMd5(value) ==
  /\ Len(value) >= Md5MinLen
  /\ Len(value) <= Md5MaxLen
  /\ \A i \in 1..Len(value) : value[i] \in DigitChars \cup HexLetters

\* /[._][a-z]$/
hasXVariant(baseLower) ==
  /\ Len(baseLower) >= 2
  /\ baseLower[Len(baseLower) - 1] \in {".", "_"}
  /\ IsLowerAlpha(baseLower[Len(baseLower)])

hasImageVariantSuffix(baseLower) == hasXVariant(baseLower)

isLikelyImageDatBase(baseLower) ==
  hasImageVariantSuffix(baseLower) \/ looksLikeMd5(baseLower)

isThumbnailDat(fileName) ==
  \/ includes(fileName, <<".","t",".","d","a","t">>)
  \/ includes(fileName, <<"_","t",".","d","a","t">>)

isThumbnailPath(filePath) ==
  LET lower == toLowerCase(basename(filePath))
      ext   == extname(lower)
      base  == IF ext # <<>> THEN dropLast(lower, Len(ext)) ELSE lower
  IN  isThumbnailDat(lower) \/ endsWith(base, <<"_","t">>)

isImageFile(filePath) ==
  extname(toLowerCase(basename(filePath))) \in {ExtGif, ExtPng, ExtJpg, ExtJpeg, ExtWebp}

RECURSIVE stripVariants(_)
stripVariants(base) ==
  IF hasXVariant(base) THEN stripVariants(dropLast(base, 2)) ELSE base

normalizeDatBase(name) ==
  LET lower == toLowerCase(name)
      base  == IF endsWith(lower, ExtDat) \/ endsWith(lower, ExtJpg)
               THEN dropLast(lower, 4) ELSE lower
  IN  stripVariants(base)

\* Seeded fault: every container scores as an original
scoreDatNameFlat(fileName) == 2

scoreDatName(fileName) ==
  IF \/ includes(fileName, <<".","t",".","d","a","t">>)
     \/ includes(fileName, <<"_","t",".","d","a","t">>)
  THEN 1
  ELSE IF \/ includes(fileName, <<".","c",".","d","a","t">>)
          \/ includes(fileName, <<"_","c",".","d","a","t">>)
       THEN 1
       ELSE 2

\* new RegExp(`^${datName}(?:[._][a-z])?\\.dat$`).test(lower), for a datName
\* made of letters, digits, "_" and "." (a "." of datName matches any
\* character)
regexLiteral(pat, s) ==
  /\ Len(pat) = Len(s)
  /\ \A i \in 1..Len(pat) : pat[i] = "." \/ pat[i] = s[i]

datPattern(datName, lower) ==
  /\ endsWith(lower, ExtDat)
  /\ LET stem == dropLast(lower, 4)
     IN  \/ regexLiteral(datName, stem)
         \/ /\ Len(stem) >= 2
            /\ stem[Len(stem) - 1] \in {".", "_"}
            /\ IsLowerAlpha(stem[Len(stem)])
            /\ regexLiteral(datName, dropLast(stem, 2))

matchesDatName(fileName, datName) ==
  LET lower == toLowerCase(fileName)
      base  == IF endsWith(lower, ExtDat) THEN dropLast(lower, 4) ELSE lower
  IN  \/ normalizeDatBase(base) = normalizeDatBase(toLowerCase(datName))
      \/ datPattern(datName, lower)
      \/ (endsWith(lower, ExtDat) /\ includes(lower, datName))

\* Seeded fault: the search takes no thumbnail, whatever it is asked for
walkCandidatesStrict(entries, datName, allowThumbnail, thumbOnly) ==
  { p \in entries :
      LET lower     == toLowerCase(basename(p))
          baseLower == dropLast(lower, 4)
      IN  /\ endsWith(lower, ExtDat)
          /\ isLikelyImageDatBase(baseLower)
          /\ hasXVariant(baseLower)
          /\ matchesDatName(lower, datName)
          /\ ~isThumbnailDat(lower) }

\* The candidates walkForDat collects from the files it visits (entries:
\* the paths below the root, within the depth limit)
walkCandidates(entries, datName, allowThumbnail, thumbOnly) ==
  { p \in entries :
      LET lower     == toLowerCase(basename(p))
          baseLower == dropLast(lower, 4)
      IN  /\ endsWith(lower, ExtDat)
          /\ isLikelyImageDatBase(baseLower)
          /\ hasXVariant(baseLower)
          /\ matchesDatName(lower, datName)
          /\ (allowThumbnail \/ ~isThumbnailDat(lower))
          /\ (~thumbOnly \/ isThumbnailDat(lower)) }

\* walkForDat: the paths it can return, one for each order in which the
\* directories list their entries ({} when it returns null).  best is the
\* first candidate of the final pool whose score no later one exceeds
\* strictly, so any candidate of maximal score can be the result.
walkForDat(entries, datName, allowThumbnail, thumbOnly) ==
  LET candidates == walkCandidates(entries, datName, allowThumbnail, thumbOnly)
      hasX(p)    == hasXVariant(dropLast(toLowerCase(basename(p)), 4))
      isThumb(p) == isThumbnailDat(toLowerCase(basename(p)))
      score(p)   == scoreDatName(toLowerCase(basename(p)))
      withX      == { p \in candidates : hasX(p) }
      basePool   == IF withX # {} THEN withX ELSE candidates
      nonThumb   == { p \in basePool : ~isThumb(p) }
      finalPool  == IF thumbOnly THEN basePool
                    ELSE IF nonThumb # {} THEN nonThumb ELSE basePool
  IN  { p \in finalPool : \A q \in finalPool : score(q) <= score(p) }

(***************************************************************************)
(* Map<string, T>                                                          *)
(***************************************************************************)
EmptyMap == [k \in {} |-> NoPath]
MapHas(m, k) == k \in DOMAIN m
MapGet(m, k) == IF k \in DOMAIN m THEN m[k] ELSE NoPath
MapSet(m, k, v) == [x \in (DOMAIN m) \cup {k} |-> IF x = k THEN v ELSE m[x]]
MapDelete(m, k) == [x \in (DOMAIN m) \ {k} |-> m[x]]

(***************************************************************************)
(* The cache directory                                                     *)
(***************************************************************************)
CacheRoot == "cache"

readdir(fs, d) == { p \in fs : p.dir = d }

\* The first extension of the list for which base + ext exists, as a set
firstExisting(fs, base) ==
  LET hits == { i \in 1..Len(extensions) : join(CacheRoot, base \o extensions[i]) \in fs }
  IN  IF hits = {} THEN {}
      ELSE { join(CacheRoot, base \o extensions[CHOOSE i \in hits : \A j \in hits : i <= j]) }

\* findCachedOutput: the paths it can return ({} for null); the directory
\* scan returns the first matching entry of the listing, whose order the
\* file system chooses
findCachedOutput(fs, cacheKey) ==
  LET exact    == firstExisting(fs, cacheKey)
      thumb    == firstExisting(fs, cacheKey \o <<"_","t">>)
      lowerKey == toLowerCase(cacheKey)
      scan     ==
        { p \in readdir(fs, CacheRoot) :
            LET lower == toLowerCase(basename(p))
                exts  == { i \in 1..Len(extensions) : endsWith(lower, extensions[i]) }
            IN  /\ exts # {}
                /\ LET ext  == extensions[CHOOSE i \in exts : \A j \in exts : i <= j]
                       base == dropLast(lower, Len(ext))
                       last == IF Len(base) >= 2 THEN SubSeq(base, Len(base) - 1, Len(base)) ELSE <<>>
                   IN  \/ base = lowerKey
                       \/ /\ startsWith(base, lowerKey \o <<"_">>)
                          /\ last # <<>> /\ last[1] = "_" /\ IsLowerAlpha(last[2])
                       \/ /\ startsWith(base, lowerKey \o <<".">>)
                          /\ last # <<>> /\ last[1] = "." /\ IsLowerAlpha(last[2]) }
  IN  IF exact # {} THEN exact
      ELSE IF thumb # {} THEN thumb
      ELSE scan

getCacheOutputPathFromDat(datPath, ext) ==
  LET name  == basename(datPath)
      lower == toLowerCase(name)
      base  == IF endsWith(lower, ExtDat) THEN dropLast(name, 4) ELSE name
  IN  join(CacheRoot, base \o ext)

(***************************************************************************)
(* Cache keys                                                              *)
(***************************************************************************)
SeqHas(keys, v) == \E i \in 1..Len(keys) : keys[i] = v
PushNew(keys, v) == IF v = <<>> \/ SeqHas(keys, v) THEN keys ELSE Append(keys, v)

addKey(keys, value) ==
  IF value = <<>> THEN keys
  ELSE LET lower == toLowerCase(value)
           k1 == PushNew(keys, value)
           k2 == PushNew(k1, lower)
       IN  PushNew(k2, normalizeDatBase(lower))

\* Seeded fault: the md5 of the reference yields no key
getCacheKeysDatOnly(payload) ==
  IF payload.imageDatName # <<>> THEN addKey(<<>>, payload.imageDatName) ELSE <<>>

getCacheKeys(payload) ==
  LET k1 == addKey(<<>>, payload.imageMd5)
  IN  IF payload.imageDatName # <<>> /\ payload.imageDatName # payload.imageMd5
      THEN addKey(k1, payload.imageDatName)
      ELSE k1

cacheResolvedPaths(rc, cacheKey, imageMd5, imageDatName, outputPath) ==
  LET r1 == MapSet(rc, cacheKey, outputPath)
      r2 == IF imageMd5 # <<>> /\ imageMd5 # cacheKey
            THEN MapSet(r1, imageMd5, outputPath) ELSE r1
  IN  IF imageDatName # <<>> /\ imageDatName # cacheKey /\ imageDatName # imageMd5
      THEN MapSet(r2, imageDatName, outputPath) ELSE r2

AccountDir == <<"A">>
datKey(datName) == AccountDir \o <<"|">> \o datName

cacheDatPath(rc, datName, datPath) ==
  LET r1 == MapSet(rc, datKey(datName), datPath)
      normalized == normalizeDatBase(datName)
  IN  IF normalized # <<>> /\ normalized # toLowerCase(datName)
      THEN MapSet(r1, datKey(normalized), datPath) ELSE r1

clearUpdateFlags(flags, cacheKey, imageMd5, imageDatName) ==
  flags \ {cacheKey, imageMd5, imageDatName}

\* Seeded fault: the index takes every file it meets
addCacheIndexAlways(rc, key, path) == MapSet(rc, toLowerCase(key), path)

addCacheIndex(rc, key, path) ==
  LET normalizedKey == toLowerCase(key)
      existing == MapGet(rc, normalizedKey)
  IN  IF /\ existing # NoPath
         /\ ~isThumbnailPath(existing)
         /\ isThumbnailPath(path)
      THEN rc
      ELSE MapSet(rc, normalizedKey, path)

(***************************************************************************)
(* The files, the references and the configurations of the model           *)
(***************************************************************************)
\* join(accountDir, 'msg', 'attach'), relative to the account directory
AttachDir == "msg/attach"

KeyAb   == <<"a","b">>
NameAbT == <<"a","b","_","t">>

ThumbDat  == join(AttachDir, <<"a","b","_","t">> \o ExtDat)
FullDat   == join(AttachDir, <<"a","b","_","h">> \o ExtDat)
PlainImg  == join(AttachDir, <<"a","b">> \o ExtJpg)
\* A file the hardlink row may name that is neither a container nor an image
\* of the five extensions
PlainBmp  == join(AttachDir, <<"a","b",".","b","m","p">>)
ThumbOut  == join(CacheRoot, <<"a","b","_","t">> \o ExtJpg)
FullOut   == join(CacheRoot, <<"a","b","_","h">> \o ExtJpg)
PlainOut  == join(CacheRoot, <<"a","b">> \o ExtJpg)

Containers == {ThumbDat, FullDat}
InitialCacheFiles == {ThumbOut, FullOut, PlainOut}

\* { sessionId?, imageMd5?, imageDatName? }: an absent field is the empty string
Payloads ==
  { [imageMd5 |-> KeyAb, imageDatName |-> <<>>],
    [imageMd5 |-> <<>>,  imageDatName |-> NameAbT],
    [imageMd5 |-> KeyAb, imageDatName |-> NameAbT] }

NoPayload == [imageMd5 |-> <<>>, imageDatName |-> <<>>]

\* The number of calls of the public operations in one run
MaxCalls == 2
\* How many times the environment interferes: a writeFile call fails or a
\* cache file is removed
MaxFaults == 1

Calls == 1..MaxCalls

\* A world: what the account directory holds and what is configured.
\*   files   the container and image files below msg/attach
\*   hlFile  file_name of the hardlink row of KeyAb (<<>>: no row)
\*   bad     the containers decryptDatAuto throws on
\*   acct    myWxid and dbPath are set and the account directory resolves
\*   xor     imageXorKey is set
\*   hl      hardlink.db: ok, nofile (it does not exist), noopen (it cannot be
\*           opened), notable (it has no image_hardlink_info table), queryerr
\*           (the query of the row throws)
\*   dir1, dir2   the directories of the row ("": the column is empty)
\*   dirTable     the dir2id table: none, ok, err (its query throws)
\*   dirName      dir_name of the dir2id row of (dir2, session) ("": no row)
\*   session      the sessionId the references carry ("": none)
\* The worlds of the model: every set of files with every row that points at
\* one of them (the plain image only as the target of the row, the file
\* that is no image only alone and as the target of the row), and, where
\* both containers exist, at most one thing wrong: no account, no XOR key, or
\* one container that does not decode.
Worlds ==
  { w \in [files : SUBSET (Containers \cup {PlainImg, PlainBmp}),
           hlFile : {<<>>} \cup { basename(p) : p \in Containers \cup {PlainImg, PlainBmp} },
           bad : SUBSET Containers,
           acct : BOOLEAN,
           xor : BOOLEAN,
           hl : {"ok"}, dir1 : {"msg"}, dir2 : {"attach"},
           dirTable : {"none"}, dirName : {""}, session : {""}] :
      /\ w.bad \subseteq w.files
      /\ (w.hlFile # <<>> => join(AttachDir, w.hlFile) \in w.files)
      /\ (PlainImg \in w.files => w.hlFile = basename(PlainImg))
      /\ (PlainBmp \in w.files => (w.files = {PlainBmp} /\ w.hlFile = basename(PlainBmp)))
      /\ Cardinality(w.bad) + (IF w.acct THEN 0 ELSE 1) + (IF w.xor THEN 0 ELSE 1) <= 1
      /\ (~(w.acct /\ w.xor /\ w.bad = {}) =>
            /\ w.files = Containers
            /\ w.hlFile \in {<<>>, basename(ThumbDat)})
      /\ (~w.acct => w.hlFile = <<>>) }

(***************************************************************************)
(* The decoder: bytes are numbers 0..255, a Buffer is a sequence of them   *)
(***************************************************************************)
\* What a function of the decoder does: it returns a Buffer or it throws
Returned(b) == [ok |-> TRUE,  out |-> b,    err |-> ""]
Thrown(e)   == [ok |-> FALSE, out |-> <<>>, err |-> e]

\* a ^ b
RECURSIVE BitXor(_, _)
BitXor(a, b) ==
  IF a = 0 THEN b
  ELSE IF b = 0 THEN a
  ELSE ((a + b) % 2) + 2 * BitXor(a \div 2, b \div 2)

\* out[i] = v: a Buffer keeps the low 8 bits
ByteOf(v) == v % 256

\* The remainder operator of JavaScript: the sign is that of the dividend
JsRem(a, n) == IF a >= 0 THEN a % n ELSE 0 - ((0 - a) % n)

\* Buffer.prototype.subarray(start, end): negative offsets count from the
\* end, and both are clamped to the Buffer
subarray(b, start, end) ==
  LET clamp(i) == IF i < 0 THEN (IF Len(b) + i < 0 THEN 0 ELSE Len(b) + i)
                  ELSE IF i > Len(b) THEN Len(b) ELSE i
  IN  IF clamp(end) <= clamp(start) THEN <<>>
      ELSE SubSeq(b, clamp(start) + 1, clamp(end))

\* Buffer.from([0x07, 0x08, 0x56, 0x31, 0x08, 0x07]) and its V2 sibling
SigV1 == <<7, 8, 86, 49, 8, 7>>
SigV2 == <<7, 8, 86, 50, 8, 7>>

compareBytes(a, b) ==
  /\ Len(a) = Len(b)
  /\ \A i \in 1..Len(a) : a[i] = b[i]

\* getDatVersion of a file that exists, from its content
getDatVersion(bytes) ==
  IF Len(bytes) < 6 THEN 0
  ELSE IF compareBytes(subarray(bytes, 0, 6), SigV1) THEN 1
  ELSE IF compareBytes(subarray(bytes, 0, 6), SigV2) THEN 2
  ELSE 0

\* Seeded fault: the key is added instead
decryptDatV3Add(data, xorKey) ==
  Returned([i \in 1..Len(data) |-> ByteOf(data[i] + xorKey)])

decryptDatV3(data, xorKey) ==
  Returned([i \in 1..Len(data) |-> ByteOf(BitXor(data[i], xorKey))])

\* Seeded fault: the number is read big-endian
bytesToInt32BigEndian(bytes) ==
  LET top == IF bytes[1] >= 128 THEN bytes[1] - 256 ELSE bytes[1]
  IN  bytes[4] + 256 * bytes[3] + 65536 * bytes[2] + 16777216 * top

\* bytes[0] | (bytes[1] << 8) | (bytes[2] << 16) | (bytes[3] << 24): a signed
\* 32-bit number
bytesToInt32(bytes) ==
  LET top == IF bytes[4] >= 128 THEN bytes[4] - 256 ELSE bytes[4]
  IN  bytes[1] + 256 * bytes[2] + 65536 * bytes[3] + 16777216 * top

\* The character codes of the characters key strings are made of
KeyChars == <<"0","1","2","3","4","5","6","7","8","9","a","b","c","d","e","f">>
charCode(ch) ==
  IF ch = " " THEN 32
  ELSE LET i == CHOOSE j \in 1..Len(KeyChars) : KeyChars[j] = ch
       IN  IF i <= 10 THEN 47 + i ELSE 86 + i

\* String.prototype.trim
RECURSIVE trim(_)
trim(s) ==
  IF s = <<>> THEN s
  ELSE IF Head(s) = " " THEN trim(Tail(s))
  ELSE IF s[Len(s)] = " " THEN trim(dropLast(s, 1))
  ELSE s

AesKeyLen == 16

asciiKey16(keyString) ==
  IF Len(keyString) < AesKeyLen THEN Thrown("aeskey16")
  ELSE Returned([i \in 1..AesKeyLen |-> charCode(keyString[i])])

\* resolveAesKey: null is the empty Buffer
resolveAesKey(aesKeyRaw) ==
  IF trim(aesKeyRaw) = <<>> THEN Returned(<<>>) ELSE asciiKey16(trim(aesKeyRaw))

\* private readonly defaultV1AesKey = 'cfcd208495d565ef'
defaultV1AesKey ==
  <<"c","f","c","d","2","0","8","4","9","5","d","5","6","5","e","f">>

\* The cipher of the crypto library stands as a keyed permutation of the
\* 16-byte blocks, applied block by block (ECB): within a block the bytes are
\* rotated by one place and the key is subtracted.  decipher.final() throws
\* on a last block that is not full (setAutoPadding(false)).
BlockLen == 16

decipherBlock(key, block) ==
  [i \in 1..BlockLen |-> (block[(i % BlockLen) + 1] + 256 - key[i]) % 256]

decipherEcb(key, data) ==
  IF Len(data) % BlockLen # 0 THEN Thrown("finalblock")
  ELSE Returned([i \in 1..Len(data) |->
                   LET blk == (i - 1) \div BlockLen
                       j   == ((i - 1) % BlockLen) + 1
                   IN  decipherBlock(key, SubSeq(data, blk * BlockLen + 1,
                                                 (blk + 1) * BlockLen))[j]])

\* Seeded fault: only the last byte is looked at
strictRemovePaddingLax(data) ==
  IF Len(data) = 0 THEN Thrown("empty")
  ELSE IF data[Len(data)] = 0 \/ data[Len(data)] > 16 \/ data[Len(data)] > Len(data)
  THEN Thrown("padlen")
  ELSE Returned(subarray(data, 0, Len(data) - data[Len(data)]))

strictRemovePadding(data) ==
  IF Len(data) = 0 THEN Thrown("empty")
  ELSE LET paddingLength == data[Len(data)]
       IN  IF paddingLength = 0 \/ paddingLength > 16 \/ paddingLength > Len(data)
           THEN Thrown("padlen")
           ELSE IF \E i \in (Len(data) - paddingLength + 1)..Len(data) :
                      data[i] # paddingLength
           THEN Thrown("padbytes")
           ELSE Returned(subarray(data, 0, Len(data) - paddingLength))

HeaderLen == 15

\* Seeded fault: a size that is a multiple of 16 is left as it is
alignedAesSizeExact(aesSize) ==
  aesSize + JsRem(16 - JsRem(JsRem(aesSize, 16) + 16, 16), 16)

\* const remainder = ((aesSize % 16) + 16) % 16; aesSize + (16 - remainder)
alignedAesSize(aesSize) ==
  LET remainder == JsRem(JsRem(aesSize, 16) + 16, 16)
  IN  aesSize + (16 - remainder)

\* Seeded fault: only the upper bound of xorSize is checked
xorSizeIllegalUpper(xorSize, remainingLength) == xorSize > remainingLength

\* if (xorSize < 0 || xorSize > remaining.length)
xorSizeIllegal(xorSize, remainingLength) ==
  xorSize < 0 \/ xorSize > remainingLength

decryptDatV4(bytes, xorKey, aesKey) ==
  IF Len(bytes) < HeaderLen THEN Thrown("small")
  ELSE
  LET header  == subarray(bytes, 0, HeaderLen)
      data    == subarray(bytes, HeaderLen, Len(bytes))
      aesSize == bytesToInt32(subarray(header, 6, 10))
      xorSize == bytesToInt32(subarray(header, 10, 14))
      aligned == alignedAesSize(aesSize)
      aesData == subarray(data, 0, aligned)
      decrypted == decipherEcb(aesKey, aesData)
      unpadded  == IF Len(aesData) > 0 THEN strictRemovePadding(decrypted.out)
                   ELSE Returned(<<>>)
      remaining == subarray(data, aligned, Len(data))
      rawLength == Len(remaining) - xorSize
      rawData   == IF xorSize > 0 THEN subarray(remaining, 0, rawLength) ELSE remaining
      xorData   == IF xorSize > 0 THEN subarray(remaining, rawLength, Len(remaining)) ELSE <<>>
      xoredData == [i \in 1..Len(xorData) |-> ByteOf(BitXor(xorData[i], xorKey))]
  IN  IF aligned > Len(data) THEN Thrown("aeslen")
      ELSE IF Len(aesData) > 0 /\ ~decrypted.ok THEN decrypted
      ELSE IF ~unpadded.ok THEN unpadded
      ELSE IF xorSizeIllegal(xorSize, Len(remaining)) THEN Thrown("xorlen")
      ELSE IF xorSize > 0 /\ rawLength < 0 THEN Thrown("rawlen")
      ELSE Returned(unpadded.out \o rawData \o xoredData)

\* Seeded fault: the fixed-key version takes the caller's key
decryptDatAutoCallerKey(bytes, xorKey, aesKey) ==
  IF getDatVersion(bytes) = 0 THEN decryptDatV3(bytes, xorKey)
  ELSE IF Len(aesKey) # AesKeyLen THEN Thrown("v4key")
  ELSE decryptDatV4(bytes, xorKey, aesKey)

\* decryptDatAuto on the content of the container
decryptDatBytes(bytes, xorKey, aesKey) ==
  LET version == getDatVersion(bytes)
  IN  IF version = 0 THEN decryptDatV3(bytes, xorKey)
      ELSE IF version = 1
      THEN decryptDatV4(bytes, xorKey, asciiKey16(defaultV1AesKey).out)
      ELSE IF Len(aesKey) # AesKeyLen THEN Thrown("v4key")
      ELSE decryptDatV4(bytes, xorKey, aesKey)

\* decryptImageInternal from `await this.decryptDatAuto(...)` to its return,
\* with the write done: the result the caller gets; whatever was thrown
\* reaches the catch and becomes { success: false, error: String(e) }
decryptResult(res) ==
  IF res.ok THEN [success |-> TRUE, error |-> ""]
  ELSE [success |-> FALSE, error |-> res.err]

\* What a container of the model is made of (none)
NoBuild ==
  [sig |-> <<>>, aesPart |-> <<>>, rawPart |-> <<>>, xorPart |-> <<>>,
   xorKey |-> 0, aesKey |-> <<>>]

\* The decoder's work: fn is what is applied (image: the key lookup of
\* decryptImageInternal and decryptDatAuto; legacy: decryptDatV3, twice;
\* hybrid: decryptDatV4; unpad: strictRemovePadding), at is how far it is
\* (new, keys, once, done), build is what the container was made of, result
\* is what decryptImageInternal returns.  xorKey is what
\* configService.get('imageXorKey') yields, 0 where it yields undefined;
\* xorSet tells that a key is configured
NoCodec ==
  [fn |-> "", at |-> "off", bytes |-> <<>>, xorKey |-> 0, xorSet |-> FALSE,
   aesKeyRaw |-> <<>>,
   aesKey |-> <<>>, build |-> NoBuild, intact |-> FALSE,
   res |-> Thrown(""), res2 |-> Thrown(""),
   result |-> [success |-> FALSE, error |-> "pending"]]

\* A lookup at work: fn is what is applied (hardlink: resolveHardlinkPath
\* and the resolveDatPath that called it; walk: walkForDat; search:
\* searchDatFile, twice; account: resolveAccountDir; output:
\* getCacheOutputPathFromDat; normalize: normalizeDatBase, twice), at is how far it is
\* (new, once, done)
NoLookup ==
  [fn |-> "", at |-> "off", payload |-> NoPayload, allowThumbnail |-> TRUE,
   thumbOnly |-> FALSE, datName |-> <<>>, wxid |-> <<>>, root |-> {},
   rootMarked |-> FALSE, rc |-> EmptyMap, res |-> NoPath, res2 |-> NoPath,
   next |-> "", dir |-> [kind |-> "", name |-> <<>>],
   tree |-> [sides |-> {}, unreadable |-> {}, broken |-> {}, holds |-> {}],
   maxDepth |-> 0, stack |-> <<>>, listed |-> <<>>, found |-> {},
   datPath |-> NoPath, ext |-> <<>>, outputPath |-> NoPath,
   base |-> <<>>, base2 |-> <<>>]

(***************************************************************************)
(* State                                                                   *)
(***************************************************************************)
VARIABLES
  world,          \* the account directory and the configuration (fixed)
  fs,             \* the paths that exist
  writes,         \* history: how many times a cache file was created or modified
  resolvedCache,  \* Map<string, string>: cache keys and "accountDir|name" keys
  pending,        \* Map<string, Promise<DecryptResult>>: key -> task
  updateFlags,    \* the keys whose update flag is true
  cacheIndexed,   \* cacheIndexed
  indexTodo,      \* the entries the startup index has still to visit
  calls,          \* the calls of resolveCachedImage and decryptImage
  tasks,          \* the decryptImageInternal tasks, by the call that started them
  checks,         \* the checkHasUpdate runs, by the call that triggered them
  mq,             \* the microtask queue
  emitCount,      \* history: image:updateAvailable events per key since its flag was last unset
  wasFull,        \* history: the keys that have pointed at a non-thumbnail output
  ioFaults,       \* failures so far: of writeFile, of a search worker
  removals,       \* cache files removed by the environment so far
  codec,          \* the decoder at work on one input (CodecSpec)
  lookup          \* a lookup of the file system at work (LookupSpec)

\* The variables of the service, and all of them
svc == <<world, fs, writes, resolvedCache, pending, updateFlags, cacheIndexed,
         indexTodo, calls, tasks, checks, mq, emitCount, wasFull, ioFaults, removals>>

vars == <<svc, codec, lookup>>

NoResult == [success |-> FALSE, path |-> NoPath, error |-> "pending"]
Ok(p)    == [success |-> TRUE,  path |-> p,      error |-> ""]
Fail(e)  == [success |-> FALSE, path |-> NoPath, error |-> e]

\* A call of a public operation.  pc: idle, index (it runs the startup
\* index), entry (awaiting ensureCacheIndexed), wait (awaiting its own task),
\* join (returned the task of another call), done, rejected (its promise was
\* rejected: the call has no result).  The fields from
\* busyAtInvoke on are history: what the call saw when it began and ended
\* (seen: the task it found in the in-flight table, 0 for none; hit: the
\* cache key under which resolveCachedImage found the image it returned).
IdleCall ==
  [pc |-> "idle", op |-> "", payload |-> NoPayload, force |-> FALSE, key |-> <<>>,
   task |-> 0, seen |-> 0, result |-> NoResult, hasUpdate |-> FALSE,
   busyAtInvoke |-> FALSE, alone |-> TRUE, valid |-> TRUE,
   pre |-> EmptyMap, preWrites |-> 0, preThumb |-> FALSE,
   post |-> EmptyMap, postWrites |-> 0, postFlag |-> FALSE,
   stale |-> {}, evicted |-> {}, hit |-> <<>>]

\* A decryptImageInternal task.  at: none, walk (a search worker runs), hung
\* (the worker has ended without a message: walkForDatInWorker stays pending),
\* search, rdp, int, dec, wrote (the continuation of that name is queued),
\* write (writeFile runs), isettled (the inner task of the thumbnail
\* fallback has settled), settled.  History: decodes (the calls of
\* decryptDatAuto), via (how it came by the image it returned: direct, probe
\* or decode), retries (the container resolutions with thumbnails allowed
\* that followed a strict one).
NoTask ==
  [at |-> "none", key |-> <<>>, payload |-> NoPayload, force |-> FALSE,
   pass |-> "", sno |-> 0, target |-> <<>>, allow |-> FALSE, val |-> NoPath,
   dat |-> NoPath, out |-> NoPath, ok |-> FALSE, inner |-> FALSE, thenRan |-> FALSE,
   held |-> FALSE, res |-> NoResult, waiters |-> <<>>, decodes |-> 0,
   via |-> "", retries |-> 0]

\* A checkHasUpdate run.  at: none, thumb, csearch, hit, then (the
\* continuation of that name is queued), cwalk, dwalk (a worker runs), done.
NoCheck ==
  [at |-> "none", key |-> <<>>, payload |-> NoPayload, target |-> <<>>,
   val |-> NoPath, has |-> FALSE]

\* A microtask: the continuation k of call, task or check id, hops ticks away
Item(k, id, hops) == [k |-> k, id |-> id, hops |-> hops]

\* The service before its first call
InitRest ==
  /\ writes = 0
  /\ resolvedCache = EmptyMap
  /\ pending = [k \in {} |-> 0]
  /\ updateFlags = {}
  /\ cacheIndexed = FALSE
  /\ indexTodo = {}
  /\ calls = [c \in Calls |-> IdleCall]
  /\ tasks = [c \in Calls |-> NoTask]
  /\ checks = [c \in Calls |-> NoCheck]
  /\ mq = <<>>
  /\ emitCount = [k \in {} |-> 0]
  /\ wasFull = {}
  /\ ioFaults = 0
  /\ removals = 0

Init ==
  /\ world \in Worlds
  /\ \E cache \in SUBSET InitialCacheFiles :
        /\ (PlainOut \in cache => world.files = {})
        /\ fs = world.files \cup cache
  /\ InitRest
  /\ codec = NoCodec
  /\ lookup = NoLookup

(***************************************************************************)
(* Container resolution                                                    *)
(***************************************************************************)
\* What stands for an exception on its way out of a lookup
Threw == [dir |-> "thrown", name |-> <<>>]

\* Seeded fault: the dir2id table is not consulted
hardlinkDirNameLiteral(w) == w.dir2

\* let dirName = dir2, replaced by dir_name of the dir2id row of (dir2,
\* sessionId) when there is a dir2id table, a session id and such a row with
\* a name; a query that throws leaves dir2
hardlinkDirName(w) ==
  IF w.dirTable = "ok" /\ w.session # "" /\ w.dirName # ""
  THEN w.dirName
  ELSE w.dir2

\* The try block of resolveHardlinkPath: the row of md5, filtered and
\* checked for existence (NoPath: it returns null or falls out of the block)
hardlinkTry(w, files, md5) ==
  LET fileName == IF md5 = KeyAb THEN w.hlFile ELSE <<>>
      lowerFileName == toLowerCase(fileName)
      baseLower == dropLast(lowerFileName, 4)
      dir      == w.dir1 \o "/" \o hardlinkDirName(w)
      fullPath == join(dir, fileName)
      withDat  == join(dir, fileName \o ExtDat)
  IN  IF w.hl = "nofile" THEN NoPath
      ELSE IF w.hl = "noopen" THEN Threw
      ELSE IF w.hl = "notable" THEN NoPath
      ELSE IF w.hl = "queryerr" THEN Threw
      ELSE IF fileName = <<>> \/ w.dir1 = "" \/ w.dir2 = "" THEN NoPath
      ELSE IF /\ endsWith(lowerFileName, ExtDat)
              /\ ~(isLikelyImageDatBase(baseLower) /\ hasXVariant(baseLower))
           THEN NoPath
      ELSE IF fullPath \in files THEN fullPath
      ELSE IF withDat \in files THEN withDat
      ELSE NoPath

\* Seeded fault: the exception leaves the lookup
hardlinkCatchNone(r) == r

\* } catch {} return null
hardlinkCatch(r) == IF r = Threw THEN NoPath ELSE r

resolveHardlinkPath(w, files, md5) == hardlinkCatch(hardlinkTry(w, files, md5))

\* Seeded fault: a remembered path is reused whatever its class
RememberedAny(rc, files, key, allowThumbnail) ==
  MapGet(rc, key) # NoPath /\ MapGet(rc, key) \in files

\* A usable remembered path: cached && existsSync(cached) && (allowThumbnail || !isThumbnailPath(cached))
Remembered(rc, files, key, allowThumbnail) ==
  LET cached == MapGet(rc, key)
  IN  /\ cached # NoPath
      /\ cached \in files
      /\ (allowThumbnail \/ ~isThumbnailPath(cached))

\* searchDatFile up to its await: either the remembered path (at "rdp": the
\* caller's await resumes with val) or a worker walk (at "walk")
searchDatFile(rc, files, datName, allowThumbnail) ==
  IF Remembered(rc, files, datKey(datName), allowThumbnail)
  THEN [at |-> "rdp", val |-> MapGet(rc, datKey(datName)), target |-> datName, rc |-> rc]
  ELSE [at |-> "walk", val |-> NoPath, target |-> datName, rc |-> rc]

\* resolveDatPath up to its first await: at "int" it has returned val
resolveDatPath(w, rc, files, payload, allowThumbnail, skipResolvedCache) ==
  LET imageMd5 == payload.imageMd5
      imageDatName == payload.imageDatName
      byMd5 == IF imageMd5 # <<>> THEN resolveHardlinkPath(w, files, imageMd5) ELSE NoPath
      byDat == IF imageMd5 = <<>> /\ imageDatName # <<>> /\ looksLikeMd5(imageDatName)
               THEN resolveHardlinkPath(w, files, imageDatName) ELSE NoPath
      usable(p) == p # NoPath /\ (allowThumbnail \/ ~isThumbnailPath(p))
      rcMd5 == cacheDatPath(rc, imageMd5, byMd5)
  IN  IF usable(byMd5)
      THEN [at |-> "int", val |-> byMd5, target |-> <<>>,
            rc |-> IF imageDatName # <<>> THEN cacheDatPath(rcMd5, imageDatName, byMd5) ELSE rcMd5]
      ELSE IF usable(byDat)
      THEN [at |-> "int", val |-> byDat, target |-> <<>>, rc |-> cacheDatPath(rc, imageDatName, byDat)]
      ELSE IF imageDatName = <<>>
      THEN [at |-> "int", val |-> NoPath, target |-> <<>>, rc |-> rc]
      ELSE IF ~skipResolvedCache /\ Remembered(rc, files, imageDatName, allowThumbnail)
      THEN [at |-> "int", val |-> MapGet(rc, imageDatName), target |-> <<>>, rc |-> rc]
      ELSE searchDatFile(rc, files, imageDatName, allowThumbnail)

\* resolveDatPath after `await searchDatFile(...)` has returned found (sno: 1
\* for the search by name, 2 for the search by normalized name)
resolveDatPathResume(rc, files, payload, allowThumbnail, sno, found) ==
  LET imageDatName == payload.imageDatName
      normalized == normalizeDatBase(imageDatName)
  IN  IF found # NoPath
      THEN [at |-> "int", val |-> found, target |-> <<>>,
            rc |-> cacheDatPath(MapSet(rc, imageDatName, found), imageDatName, found)]
      ELSE IF sno = 1 /\ normalized # toLowerCase(imageDatName)
      THEN searchDatFile(rc, files, normalized, allowThumbnail)
      ELSE [at |-> "int", val |-> NoPath, target |-> <<>>, rc |-> rc]

\* decryptImageInternal up to `await this.resolveDatPath(...)`: a failure
\* returned at once (at "ret") or the state of the resolution
decryptImageInternal(w, rc, files, payload, force) ==
  IF ~w.acct
  THEN [at |-> "ret", val |-> NoPath, target |-> <<>>, rc |-> rc]
  ELSE resolveDatPath(w, rc, files, payload, ~force, force)

\* decryptDatAuto: whether it returns the plaintext (it throws otherwise)
decryptDatAuto(w, files, datPath) == datPath \in files /\ datPath \notin w.bad

\* detectImageExtension(decrypted) || '.jpg'
detectImageExtension(datPath) == ExtJpg

(***************************************************************************)
(* The update watcher's lookups                                            *)
(***************************************************************************)
\* getCachedDatDir ("" for null)
getCachedDatDir(rc, files, imageDatName, imageMd5) ==
  LET keys == (IF imageDatName # <<>>
               THEN <<datKey(imageDatName), datKey(normalizeDatBase(imageDatName))>>
               ELSE <<>>)
              \o (IF imageMd5 # <<>> THEN <<datKey(imageMd5)>> ELSE <<>>)
      hits == { i \in 1..Len(keys) :
                  MapGet(rc, keys[i]) # NoPath /\ MapGet(rc, keys[i]) \in files }
  IN  IF hits = {} THEN ""
      ELSE dirname(MapGet(rc, keys[CHOOSE i \in hits : \A j \in hits : i <= j]))

\* findNonThumbnailVariantInDir: the entries it can return ({} for null)
findNonThumbnailVariantInDir(files, dirPath, baseName) ==
  LET target == normalizeDatBase(toLowerCase(baseName))
  IN  { p \in readdir(files, dirPath) :
          LET lower == toLowerCase(basename(p))
          IN  /\ endsWith(lower, ExtDat)
              /\ ~isThumbnailDat(lower)
              /\ hasXVariant(dropLast(lower, 4))
              /\ normalizeDatBase(dropLast(lower, 4)) = target }

isNonThumbnailVariantDat(datPath) ==
  LET lower == toLowerCase(basename(datPath))
  IN  /\ endsWith(lower, ExtDat)
      /\ ~isThumbnailDat(lower)
      /\ hasXVariant(dropLast(lower, 4))

\* payload.imageDatName || payload.imageMd5 || cacheKey
baseNameOf(payload, cacheKey) ==
  IF payload.imageDatName # <<>> THEN payload.imageDatName
  ELSE IF payload.imageMd5 # <<>> THEN payload.imageMd5
  ELSE cacheKey

SyncFalse == [at |-> "then", hops |-> 0, val |-> NoPath, has |-> FALSE]
SyncTrue  == [at |-> "then", hops |-> 0, val |-> NoPath, has |-> TRUE]

\* resolveThumbnailDatPath up to its return: the path it resolves with, and
\* after how many more ticks the caller's await resumes (`return
\* this.searchDatFile(...)` resolves with a promise, which costs two), or the
\* worker search it waits for (at "cwalk")
resolveThumbnailDatPath(w, rc, files, payload) ==
  LET imageMd5 == payload.imageMd5
      imageDatName == payload.imageDatName
      byMd5 == IF imageMd5 # <<>> THEN resolveHardlinkPath(w, files, imageMd5) ELSE NoPath
      byDat == IF imageMd5 = <<>> /\ imageDatName # <<>> /\ looksLikeMd5(imageDatName)
               THEN resolveHardlinkPath(w, files, imageDatName) ELSE NoPath
      thumb(p) == p # NoPath /\ isThumbnailPath(p)
  IN  IF thumb(byMd5) THEN [at |-> "thumb", hops |-> 0, val |-> byMd5, has |-> FALSE]
      ELSE IF thumb(byDat) THEN [at |-> "thumb", hops |-> 0, val |-> byDat, has |-> FALSE]
      ELSE IF imageDatName = <<>> THEN [at |-> "thumb", hops |-> 0, val |-> NoPath, has |-> FALSE]
      ELSE IF Remembered(rc, files, datKey(imageDatName), TRUE)
      THEN [at |-> "thumb", hops |-> 2, val |-> MapGet(rc, datKey(imageDatName)), has |-> FALSE]
      ELSE [at |-> "cwalk", hops |-> 0, val |-> NoPath, has |-> FALSE]

\* checkHasUpdate up to its first await
checkHasUpdate(w, rc, files, payload, cacheKey, cachedPath) ==
  LET quickDir == getCachedDatDir(rc, files, payload.imageDatName, payload.imageMd5)
      baseName == baseNameOf(payload, cacheKey)
  IN  IF cachedPath = NoPath \/ cachedPath \notin files THEN SyncFalse
      ELSE IF ~isThumbnailPath(cachedPath) THEN SyncFalse
      ELSE IF ~w.acct THEN SyncFalse
      ELSE IF quickDir # "" /\ findNonThumbnailVariantInDir(files, quickDir, baseName) # {}
      THEN SyncTrue
      ELSE resolveThumbnailDatPath(w, rc, files, payload)

\* checkHasUpdate after `await this.resolveThumbnailDatPath(...)`
checkHasUpdateResume(files, payload, cacheKey, thumbPath) ==
  LET baseName == baseNameOf(payload, cacheKey)
  IN  IF thumbPath = NoPath THEN SyncFalse
      ELSE IF findNonThumbnailVariantInDir(files, dirname(thumbPath), baseName) # {}
      THEN SyncTrue
      ELSE [at |-> "dwalk", hops |-> 0, val |-> thumbPath, has |-> FALSE]

(***************************************************************************)
(* History                                                                 *)
(***************************************************************************)
IsCacheKey(k) == ~includes(k, <<"|">>)

\* The cache keys that point at a non-thumbnail output
FullKeys(rc) ==
  { k \in DOMAIN rc : IsCacheKey(k) /\ isImageFile(rc[k]) /\ ~isThumbnailPath(rc[k]) }

\* The cache keys that point at a thumbnail output
ThumbKeys(rc) ==
  { k \in DOMAIN rc : IsCacheKey(k) /\ isImageFile(rc[k]) /\ isThumbnailPath(rc[k]) }

\* The keys of a reference
RefKeys(payload) ==
  { getCacheKeys(payload)[i] : i \in 1..Len(getCacheKeys(payload)) }

Restrict(m, ks) == [k \in (DOMAIN m) \cap ks |-> m[k]]

\* updateFlags.delete(k) for the keys ks: the count of events restarts
Unflag(ec, ks) == [k \in DOMAIN ec |-> IF k \in ks THEN 0 ELSE ec[k]]

\* updateFlags.set(k, true) followed by emitImageUpdate
Emit(ec, k) == [x \in (DOMAIN ec) \cup {k} |-> IF x = k THEN (IF k \in DOMAIN ec THEN ec[k] ELSE 0) + 1 ELSE ec[x]]

(***************************************************************************)
(* Promises                                                                *)
(***************************************************************************)
\* The task t of record tk settles with res: the inner task of the thumbnail
\* fallback hands its result to the outer promise that was resolved with it
\* (one tick later, once the outer promise has subscribed); any other task
\* wakes the call awaiting it and then the calls that returned it
Settle(t, tk, res, q) ==
  IF tk.inner
  THEN [task |-> [tk EXCEPT !.at = "isettled", !.res = res, !.held = ~tk.thenRan],
        mq   |-> IF tk.thenRan THEN Append(q, Item("adopt", t, 0)) ELSE q]
  ELSE [task |-> [tk EXCEPT !.at = "settled", !.res = res],
        mq   |-> Append(q, Item("fin", t, 0))
                 \o [i \in 1..Len(tk.waiters) |-> Item("jdone", tk.waiters[i], 0)]]

\* The task goes on from the state r of its container resolution
Proceed(t, tk, r, q) ==
  IF r.at = "ret" THEN Settle(t, tk, Fail("account"), q)
  ELSE IF r.at = "walk"
  THEN [task |-> [tk EXCEPT !.at = "walk", !.target = r.target], mq |-> q]
  ELSE [task |-> [tk EXCEPT !.at = r.at, !.val = r.val, !.target = r.target],
        mq   |-> Append(q, Item("task", t, 0))]

Running(c) == calls[c].pc \notin {"idle", "done", "rejected"}
Indexing == \E c \in Calls : calls[c].pc = "index"

\* cacheIndexing holds a rejected promise: getCacheRoot threw in the executor
\* of the promise of ensureCacheIndexed, which left cacheIndexed false
Rejecting == \E c \in Calls : calls[c].pc = "rejected"

(***************************************************************************)
(* The public operations are called                                        *)
(***************************************************************************)
\* resolveCachedImage(payload) or decryptImage(payload) is called, up to
\* `await this.ensureCacheIndexed()`; the first call starts the startup index.
\* A call arrives in a turn of its own (an IPC message) or in the turn of
\* another call, before any promise job of that turn has run.
Invoke(c, op, payload, force) ==
  /\ \A i \in 1..Len(mq) : mq[i].k = "call"
  /\ calls[c].pc = "idle"
  /\ \A d \in Calls : d < c => calls[d].pc # "idle"
  /\ ~Indexing
  /\ ~Rejecting
  /\ (op = "resolve" => ~force)
  /\ LET key   == IF payload.imageMd5 # <<>> THEN payload.imageMd5 ELSE payload.imageDatName
         busy  == /\ op = "decrypt"
                  /\ MapHas(pending, key)
                  /\ tasks[pending[key]].at # "settled"
         quiet == /\ \A d \in Calls : ~Running(d)
                  /\ \A d \in Calls : checks[d].at \in {"none", "done"}
         me    == [IdleCall EXCEPT !.pc = IF cacheIndexed THEN "entry" ELSE "index",
                                   !.op = op, !.payload = payload, !.force = force,
                                   !.key = key, !.busyAtInvoke = busy, !.alone = quiet]
     IN  calls' = [d \in Calls |->
                     IF d = c THEN me
                     ELSE IF Running(d) THEN [calls[d] EXCEPT !.alone = FALSE]
                     ELSE calls[d]]
  /\ IF cacheIndexed
     THEN /\ mq' = Append(mq, Item("call", c, 0))
          /\ indexTodo' = indexTodo
     ELSE /\ mq' = mq
          /\ indexTodo' = { p \in readdir(fs, CacheRoot) :
                              \E i \in 1..Len(extensions) :
                                 endsWith(toLowerCase(basename(p)), extensions[i]) }
  /\ UNCHANGED <<codec, lookup, world, fs, writes, resolvedCache, pending, updateFlags, cacheIndexed,
                 tasks, checks, emitCount, wasFull, ioFaults, removals>>

\* resolveCachedImage(payload) or decryptImage(payload) is called while the
\* cache root cannot be had: the first call finds no cache root, mkdirSync
\* throws in getCacheRoot inside the executor of `new Promise`, the promise
\* is rejected and stored in cacheIndexing with cacheIndexed still false;
\* every later call is handed that promise.  `await ensureCacheIndexed()`
\* stands outside any try: the call is rejected.
InvokeRejected(c, op, payload, force) ==
  /\ mq = <<>>
  /\ calls[c].pc = "idle"
  /\ \A d \in Calls : d < c => calls[d].pc # "idle"
  /\ ~Indexing
  /\ ~cacheIndexed
  /\ (op = "resolve" => ~force)
  /\ Rejecting \/ readdir(fs, CacheRoot) = {}
  /\ calls' = [calls EXCEPT ![c] =
                 [IdleCall EXCEPT !.pc = "rejected", !.op = op, !.payload = payload,
                                  !.force = force,
                                  !.key = IF payload.imageMd5 # <<>> THEN payload.imageMd5
                                          ELSE payload.imageDatName]]
  /\ UNCHANGED <<codec, lookup, world, fs, writes, resolvedCache, pending, updateFlags, cacheIndexed,
                 indexTodo, tasks, checks, mq, emitCount, wasFull, ioFaults, removals>>

\* ensureCacheIndexed: one pass of the loop over the directory listing
IndexEntry(rc, p) ==
  LET entry == basename(p)
      lower == toLowerCase(entry)
      exts  == { i \in 1..Len(extensions) : endsWith(lower, extensions[i]) }
      ext   == extensions[CHOOSE i \in exts : \A j \in exts : i <= j]
      base  == dropLast(entry, Len(ext))
      rc1   == addCacheIndex(rc, base, p)
      normalized == normalizeDatBase(base)
  IN  IF normalized # <<>> /\ normalized # toLowerCase(base)
      THEN addCacheIndex(rc1, normalized, p)
      ELSE rc1

IndexStep(p) ==
  /\ Indexing
  /\ p \in indexTodo
  /\ indexTodo' = indexTodo \ {p}
  /\ resolvedCache' = IF p \in fs THEN IndexEntry(resolvedCache, p) ELSE resolvedCache
  /\ wasFull' = wasFull \cup FullKeys(resolvedCache')
  /\ UNCHANGED <<codec, lookup, world, fs, writes, pending, updateFlags, cacheIndexed, calls, tasks,
                 checks, mq, emitCount, ioFaults, removals>>

\* The listing is exhausted: cacheIndexed = true, and the call resumes three
\* ticks later (ensureCacheIndexed returned the promise cacheIndexing)
IndexDone(c) ==
  /\ calls[c].pc = "index"
  /\ indexTodo = {}
  /\ cacheIndexed' = TRUE
  /\ calls' = [calls EXCEPT ![c].pc = "entry"]
  /\ mq' = Append(mq, Item("call", c, 2))
  /\ UNCHANGED <<codec, lookup, world, fs, writes, resolvedCache, pending, updateFlags, indexTodo,
                 tasks, checks, emitCount, wasFull, ioFaults, removals>>

(***************************************************************************)
(* The event loop                                                          *)
(***************************************************************************)
\* The microtask at the head stands for a chain of promise jobs: one of them
\* runs and queues the next
Hop ==
  /\ mq # <<>>
  /\ Head(mq).hops > 0
  /\ mq' = Append(Tail(mq), [Head(mq) EXCEPT !.hops = @ - 1])
  /\ UNCHANGED <<codec, lookup, world, fs, writes, resolvedCache, pending, updateFlags, cacheIndexed,
                 indexTodo, calls, tasks, checks, emitCount, wasFull, ioFaults, removals>>

AtHead(k, id) == mq # <<>> /\ Head(mq) = Item(k, id, 0)

\* Whether key is cached as a thumbnail output that exists
CachedAsThumb(rc, files, key) ==
  LET cached == MapGet(rc, key)
  IN  cached # NoPath /\ cached \in files /\ isImageFile(cached) /\ isThumbnailPath(cached)

\* What a call records when it returns
Finish(call, res, rc, flags, w) ==
  [call EXCEPT !.pc = "done", !.result = res,
               !.valid = res.success => (res.path \in fs /\ isImageFile(res.path)),
               !.post = Restrict(rc, RefKeys(call.payload)),
               !.postWrites = w, !.postFlag = call.key \in flags]

(***************************************************************************)
(* decryptImage                                                            *)
(***************************************************************************)
\* Seeded fault: the in-flight table is never consulted
pendingGetNone(p, key) == 0

\* this.pending.get(cacheKey): the task of the key (0 for none)
pendingGet(p, key) == IF key \in DOMAIN p THEN p[key] ELSE 0

\* this.pending.set(cacheKey, task)
pendingSet(p, key, t) == [k \in (DOMAIN p) \cup {key} |-> IF k = key THEN t ELSE p[k]]

\* Seeded fault: the cleanup is forgotten
pendingDeleteLost(p, key) == p

\* this.pending.delete(cacheKey)
pendingDelete(p, key) == [k \in (DOMAIN p) \ {key} |-> p[k]]

\* Seeded fault: a call that finds a task in flight gives up instead
returnBusy(tk) == Fail("busy")

\* `return pending`: the call settles with what the task settled with
returnPending(tk) == tk.res

\* Seeded fault: the index entry is returned to a forced call as well
cacheHitAnyway(rc, files, key, force) ==
  /\ MapGet(rc, key) # NoPath
  /\ MapGet(rc, key) \in files
  /\ isImageFile(MapGet(rc, key))

\* decryptImage, `if (!payload.force)`: the index entry of the key is returned
cacheHit(rc, files, key, force) ==
  /\ ~force
  /\ MapGet(rc, key) # NoPath
  /\ MapGet(rc, key) \in files
  /\ isImageFile(MapGet(rc, key))

StartTask(c) ==
  [NoTask EXCEPT !.key = calls[c].key, !.payload = calls[c].payload,
                 !.force = calls[c].force, !.pass = "main", !.sno = 1,
                 !.allow = ~calls[c].force]

\* decryptImage after `await this.ensureCacheIndexed()`: the cache hit, the
\* in-flight task of the key returned, or a task of its own started and
\* installed, up to `await task`
DecryptEnter(c) ==
  /\ AtHead("call", c)
  /\ calls[c].op = "decrypt"
  /\ LET me     == calls[c]
         key    == me.key
         cached == MapGet(resolvedCache, key)
         hit    == cacheHit(resolvedCache, fs, key, me.force)
         rc1    == IF ~me.force /\ cached # NoPath /\ ~isImageFile(cached)
                   THEN MapDelete(resolvedCache, key) ELSE resolvedCache
         snap   == [me EXCEPT !.pre = Restrict(resolvedCache, RefKeys(me.payload)),
                              !.preWrites = writes,
                              !.preThumb = CachedAsThumb(resolvedCache, fs, key),
                              !.seen = IF ~hit /\ key \in DOMAIN pending THEN pending[key] ELSE 0]
         r      == decryptImageInternal(world, rc1, fs, me.payload, me.force)
         go     == Proceed(c, StartTask(c), r, Tail(mq))
     IN  IF hit
         THEN /\ calls' = [calls EXCEPT ![c] = Finish(snap, Ok(cached), resolvedCache, updateFlags, writes)]
              /\ mq' = Tail(mq)
              /\ UNCHANGED <<resolvedCache, pending, tasks>>
         ELSE IF pendingGet(pending, key) # 0
         THEN /\ calls' = [calls EXCEPT ![c] = [snap EXCEPT !.pc = "join",
                                                             !.task = pendingGet(pending, key)]]
              /\ mq' = Append(Tail(mq), Item("jthen", c, 0))
              /\ resolvedCache' = rc1
              /\ UNCHANGED <<pending, tasks>>
         ELSE /\ calls' = [calls EXCEPT ![c] = [snap EXCEPT !.pc = "wait", !.task = c]]
              /\ tasks' = [tasks EXCEPT ![c] = go.task]
              /\ mq' = go.mq
              /\ pending' = pendingSet(pending, key, c)
              /\ resolvedCache' = r.rc
  /\ wasFull' = wasFull \cup FullKeys(resolvedCache')
  /\ UNCHANGED <<codec, lookup, world, fs, writes, updateFlags, cacheIndexed, indexTodo, checks,
                 emitCount, ioFaults, removals>>

\* `return pending`: the call's promise subscribes to the task one tick later
JoinThen(c) ==
  /\ AtHead("jthen", c)
  /\ LET t == calls[c].task
     IN  IF tasks[t].at = "settled"
         THEN /\ mq' = Append(Tail(mq), Item("jdone", c, 0))
              /\ tasks' = tasks
         ELSE /\ mq' = Tail(mq)
              /\ tasks' = [tasks EXCEPT ![t].waiters = Append(@, c)]
  /\ UNCHANGED <<codec, lookup, world, fs, writes, resolvedCache, pending, updateFlags, cacheIndexed,
                 indexTodo, calls, checks, emitCount, wasFull, ioFaults, removals>>

\* The call that returned the task of another call settles with its result
JoinDone(c) ==
  /\ AtHead("jdone", c)
  /\ mq' = Tail(mq)
  /\ calls' = [calls EXCEPT ![c] = Finish(calls[c], returnPending(tasks[calls[c].task]),
                                          resolvedCache, updateFlags, writes)]
  /\ UNCHANGED <<codec, lookup, world, fs, writes, resolvedCache, pending, updateFlags, cacheIndexed,
                 indexTodo, tasks, checks, emitCount, wasFull, ioFaults, removals>>

\* `await task` resumes: finally { this.pending.delete(cacheKey) }
CallFin(c) ==
  /\ AtHead("fin", c)
  /\ mq' = Tail(mq)
  /\ pending' = pendingDelete(pending, calls[c].key)
  /\ calls' = [calls EXCEPT ![c] = Finish(calls[c], tasks[c].res,
                                          resolvedCache, updateFlags, writes)]
  /\ UNCHANGED <<codec, lookup, world, fs, writes, resolvedCache, updateFlags, cacheIndexed,
                 indexTodo, tasks, checks, emitCount, wasFull, ioFaults, removals>>

(***************************************************************************)
(* decryptImageInternal                                                    *)
(***************************************************************************)
TaskAt(t, at) == AtHead("task", t) /\ tasks[t].at = at

\* The search worker of a task posts its result: walkForDatInWorker resumes
\* and searchDatFile after it
WorkerDone(t) ==
  /\ mq = <<>>
  /\ ~Indexing
  /\ tasks[t].at = "walk"
  /\ LET found == walkForDat(readdir(fs, AttachDir), toLowerCase(tasks[t].target),
                             tasks[t].allow, FALSE)
     IN  \E v \in (IF found = {} THEN {NoPath} ELSE found) :
            tasks' = [tasks EXCEPT ![t].at = "search", ![t].val = v]
  /\ mq' = <<Item("task", t, 1)>>
  /\ UNCHANGED <<codec, lookup, world, fs, writes, resolvedCache, pending, updateFlags, cacheIndexed,
                 indexTodo, calls, checks, emitCount, wasFull, ioFaults, removals>>

\* The search worker of a task fails.  how = "error": it posts
\* {type: 'error'} or emits 'error', and walkForDatInWorker resolves with
\* null.  how = "exit": it ends without a message; there is no 'exit'
\* listener and no timer, so the promise of walkForDatInWorker stays pending.
WorkerFail(t, how) ==
  /\ mq = <<>>
  /\ ~Indexing
  /\ tasks[t].at = "walk"
  /\ ioFaults + removals < MaxFaults
  /\ ioFaults' = ioFaults + 1
  /\ IF how = "error"
     THEN /\ tasks' = [tasks EXCEPT ![t].at = "search", ![t].val = NoPath]
          /\ mq' = <<Item("task", t, 1)>>
     ELSE /\ tasks' = [tasks EXCEPT ![t].at = "hung"]
          /\ mq' = mq
  /\ UNCHANGED <<codec, lookup, world, fs, writes, resolvedCache, pending, updateFlags, cacheIndexed,
                 indexTodo, calls, checks, emitCount, wasFull, removals>>

\* searchDatFile after `await this.walkForDatInWorker(...)`
TaskSearch(t) ==
  /\ TaskAt(t, "search")
  /\ resolvedCache' = IF tasks[t].val # NoPath
                      THEN MapSet(resolvedCache, datKey(tasks[t].target), tasks[t].val)
                      ELSE resolvedCache
  /\ tasks' = [tasks EXCEPT ![t].at = "rdp"]
  /\ mq' = Append(Tail(mq), Item("task", t, 0))
  /\ wasFull' = wasFull \cup FullKeys(resolvedCache')
  /\ UNCHANGED <<codec, lookup, world, fs, writes, pending, updateFlags, cacheIndexed, indexTodo,
                 calls, checks, emitCount, ioFaults, removals>>

\* resolveDatPath after `await this.searchDatFile(...)`
TaskRdp(t) ==
  /\ TaskAt(t, "rdp")
  /\ LET tk == tasks[t]
         r  == resolveDatPathResume(resolvedCache, fs, tk.payload, tk.allow, tk.sno, tk.val)
         go == Proceed(t, [tk EXCEPT !.sno = IF r.at = "int" THEN tk.sno ELSE 2], r, Tail(mq))
     IN  /\ resolvedCache' = r.rc
         /\ tasks' = [tasks EXCEPT ![t] = go.task]
         /\ mq' = go.mq
  /\ wasFull' = wasFull \cup FullKeys(resolvedCache')
  /\ UNCHANGED <<codec, lookup, world, fs, writes, pending, updateFlags, cacheIndexed, indexTodo,
                 calls, checks, emitCount, ioFaults, removals>>

\* decryptImageInternal after `await this.resolveDatPath(...)`, up to its
\* next await or its return
TaskInt(t) ==
  /\ TaskAt(t, "int")
  /\ LET tk      == tasks[t]
         datPath == tk.val
         md5     == tk.payload.imageMd5
         datName == tk.payload.imageDatName
         q       == Tail(mq)
         fb      == resolveDatPath(world, resolvedCache, fs, tk.payload, TRUE, TRUE)
         inner   == decryptImageInternal(world, resolvedCache, fs, tk.payload, FALSE)
         goFb    == Proceed(t, [tk EXCEPT !.pass = "fb", !.allow = TRUE, !.sno = 1,
                                           !.retries = @ + 1], fb, q)
         goInner == Proceed(t, [tk EXCEPT !.pass = "main", !.allow = TRUE, !.sno = 1,
                                           !.force = FALSE, !.inner = TRUE], inner, q)
         existing == IF tk.force THEN {} ELSE findCachedOutput(fs, tk.key)
         done(res, rc, via) ==
           LET st == Settle(t, [tk EXCEPT !.via = via], res, q)
           IN  /\ resolvedCache' = rc
               /\ tasks' = [tasks EXCEPT ![t] = st.task]
               /\ mq' = st.mq
     IN  IF tk.pass = "fb"
         THEN IF datPath # NoPath
              THEN /\ resolvedCache' = inner.rc
                   /\ tasks' = [tasks EXCEPT ![t] = goInner.task]
                   /\ mq' = Append(goInner.mq, Item("tthen", t, 0))
              ELSE done(Fail("notfound"), resolvedCache, "")
         ELSE IF datPath = NoPath /\ tk.force
         THEN /\ resolvedCache' = fb.rc
              /\ tasks' = [tasks EXCEPT ![t] = goFb.task]
              /\ mq' = goFb.mq
         ELSE IF datPath = NoPath
         THEN done(Fail("notfound"), resolvedCache, "")
         ELSE IF ~includes(toLowerCase(extname(basename(datPath))), <<"d","a","t">>)
         THEN done(Ok(datPath), cacheResolvedPaths(resolvedCache, tk.key, md5, datName, datPath),
                   "direct")
         ELSE IF existing # {}
         THEN \E e \in existing :
                 done(Ok(e), cacheResolvedPaths(resolvedCache, tk.key, md5, datName, e), "probe")
         ELSE IF ~world.xor
         THEN done(Fail("xorkey"), resolvedCache, "")
         ELSE /\ resolvedCache' = resolvedCache
              /\ tasks' = [tasks EXCEPT ![t] =
                             [tk EXCEPT !.at = "dec", !.dat = datPath, !.decodes = @ + 1,
                                        !.ok = decryptDatAuto(world, fs, datPath)]]
              /\ mq' = Append(q, Item("task", t, 0))
  /\ wasFull' = wasFull \cup FullKeys(resolvedCache')
  /\ UNCHANGED <<codec, lookup, world, fs, writes, pending, updateFlags, cacheIndexed, indexTodo,
                 calls, checks, emitCount, ioFaults, removals>>

\* decryptImageInternal after `await this.decryptDatAuto(...)`: it threw, or
\* writeFile starts
TaskDec(t) ==
  /\ TaskAt(t, "dec")
  /\ LET tk  == tasks[t]
         out == getCacheOutputPathFromDat(tk.dat, detectImageExtension(tk.dat))
         st  == Settle(t, tk, Fail("decode"), Tail(mq))
     IN  IF tk.ok
         THEN /\ tasks' = [tasks EXCEPT ![t] = [tk EXCEPT !.at = "write", !.out = out]]
              /\ mq' = Tail(mq)
         ELSE /\ tasks' = [tasks EXCEPT ![t] = st.task]
              /\ mq' = st.mq
  /\ UNCHANGED <<codec, lookup, world, fs, writes, resolvedCache, pending, updateFlags, cacheIndexed,
                 indexTodo, calls, checks, emitCount, wasFull, ioFaults, removals>>

\* writeFile(outputPath, decrypted) completes: the file is written, or the
\* write fails and leaves either nothing or a file that is not the image
WriteDone(t, outcome) ==
  /\ mq = <<>>
  /\ ~Indexing
  /\ tasks[t].at = "write"
  /\ (outcome # "ok" => ioFaults + removals < MaxFaults)
  /\ tasks' = [tasks EXCEPT ![t].at = "wrote", ![t].ok = (outcome = "ok")]
  /\ fs' = IF outcome = "fail" THEN fs ELSE fs \cup {tasks[t].out}
  /\ writes' = IF outcome = "fail" THEN writes ELSE writes + 1
  /\ ioFaults' = IF outcome = "ok" THEN ioFaults ELSE ioFaults + 1
  /\ mq' = <<Item("task", t, 0)>>
  /\ UNCHANGED <<codec, lookup, world, resolvedCache, pending, updateFlags, cacheIndexed, indexTodo,
                 calls, checks, emitCount, wasFull, removals>>

\* decryptImageInternal after `await writeFile(...)`
TaskWrote(t) ==
  /\ TaskAt(t, "wrote")
  /\ LET tk      == tasks[t]
         md5     == tk.payload.imageMd5
         datName == tk.payload.imageDatName
         res     == IF tk.ok THEN Ok(tk.out) ELSE Fail("io")
         st      == Settle(t, [tk EXCEPT !.via = IF tk.ok THEN "decode" ELSE ""],
                           res, Tail(mq))
         cleared == IF tk.ok /\ ~isThumbnailPath(tk.dat) THEN {tk.key, md5, datName} ELSE {}
     IN  /\ resolvedCache' = IF tk.ok
                             THEN cacheResolvedPaths(resolvedCache, tk.key, md5, datName, tk.out)
                             ELSE resolvedCache
         /\ updateFlags' = IF tk.ok /\ ~isThumbnailPath(tk.dat)
                           THEN clearUpdateFlags(updateFlags, tk.key, md5, datName)
                           ELSE updateFlags
         /\ emitCount' = Unflag(emitCount, cleared)
         /\ tasks' = [tasks EXCEPT ![t] = st.task]
         /\ mq' = st.mq
  /\ wasFull' = wasFull \cup FullKeys(resolvedCache')
  /\ UNCHANGED <<codec, lookup, world, fs, writes, pending, cacheIndexed, indexTodo, calls, checks,
                 ioFaults, removals>>

\* The promise of the forced task, resolved with the task of the thumbnail
\* fallback, subscribes to it
TaskThen(t) ==
  /\ AtHead("tthen", t)
  /\ tasks' = [tasks EXCEPT ![t].thenRan = TRUE]
  /\ mq' = IF tasks[t].held THEN Append(Tail(mq), Item("adopt", t, 0)) ELSE Tail(mq)
  /\ UNCHANGED <<codec, lookup, world, fs, writes, resolvedCache, pending, updateFlags, cacheIndexed,
                 indexTodo, calls, checks, emitCount, wasFull, ioFaults, removals>>

\* The promise of the forced task settles with the result of the fallback
TaskAdopt(t) ==
  /\ AtHead("adopt", t)
  /\ LET st == Settle(t, [tasks[t] EXCEPT !.inner = FALSE], tasks[t].res, Tail(mq))
     IN  /\ tasks' = [tasks EXCEPT ![t] = st.task]
         /\ mq' = st.mq
  /\ UNCHANGED <<codec, lookup, world, fs, writes, resolvedCache, pending, updateFlags, cacheIndexed,
                 indexTodo, calls, checks, emitCount, wasFull, ioFaults, removals>>

(***************************************************************************)
(* resolveCachedImage                                                      *)
(***************************************************************************)
\* Seeded fault: the first loop evicts nothing
resolveLoop1Keep(rc, files, keys, i) ==
  LET hits == { j \in i..Len(keys) :
                  /\ MapGet(rc, keys[j]) # NoPath
                  /\ MapGet(rc, keys[j]) \in files
                  /\ isImageFile(MapGet(rc, keys[j])) }
  IN  [hit |-> IF hits = {} THEN 0 ELSE CHOOSE j \in hits : \A h \in hits : j <= h,
       rc  |-> rc]

\* The first loop: the index of the first key whose entry passes the check
\* (0 for none) and the index after the evictions on the way to it
RECURSIVE resolveLoop1(_, _, _, _)
resolveLoop1(rc, files, keys, i) ==
  IF i > Len(keys) THEN [hit |-> 0, rc |-> rc]
  ELSE LET cached == MapGet(rc, keys[i])
       IN  IF cached # NoPath /\ cached \in files /\ isImageFile(cached)
           THEN [hit |-> i, rc |-> rc]
           ELSE resolveLoop1(IF cached # NoPath /\ ~isImageFile(cached)
                             THEN MapDelete(rc, keys[i]) ELSE rc,
                             files, keys, i + 1)

\* Seeded fault: triggerUpdateCheck is called for every hit
startsUpdateCheckAlways(isThumb, flags, key) == key \notin flags

\* Whether a hit under key starts checkHasUpdate: triggerUpdateCheck is called
\* for a thumbnail only, and returns at once when the key's flag is set
startsUpdateCheck(isThumb, flags, key) == isThumb /\ key \notin flags

\* resolveCachedImage after `await this.ensureCacheIndexed()`, to its return;
\* a thumbnail hit starts checkHasUpdate unless the key's flag is set
ResolveEnter(c) ==
  /\ AtHead("call", c)
  /\ calls[c].op = "resolve"
  /\ LET me    == calls[c]
         keys  == getCacheKeys(me.payload)
         l1    == resolveLoop1(resolvedCache, fs, keys, 1)
         seen  == IF l1.hit = 0 THEN 1..Len(keys) ELSE 1..(l1.hit - 1)
         probe == { i \in 1..Len(keys) : findCachedOutput(fs, keys[i]) # {} }
         first == CHOOSE i \in probe : \A j \in probe : i <= j
         snap  == [me EXCEPT !.pre = Restrict(resolvedCache, RefKeys(me.payload)),
                             !.preWrites = writes,
                             !.stale = { keys[i] : i \in { j \in seen : MapHas(resolvedCache, keys[j]) } },
                             !.evicted = (DOMAIN resolvedCache) \ (DOMAIN l1.rc)]
         found(key, path, rc) ==
           LET isThumb == isThumbnailPath(path)
               start   == startsUpdateCheck(isThumb, updateFlags, key)
               ck      == checkHasUpdate(world, rc, fs, me.payload, key, path)
           IN  /\ resolvedCache' = rc
               /\ updateFlags' = IF isThumb THEN updateFlags ELSE updateFlags \ {key}
               /\ emitCount' = IF isThumb THEN emitCount ELSE Unflag(emitCount, {key})
               /\ calls' = [calls EXCEPT ![c] =
                              Finish([snap EXCEPT !.hasUpdate = isThumb /\ key \in updateFlags,
                                                  !.hit = key],
                                     Ok(path), rc, updateFlags', writes)]
               /\ checks' = IF start
                            THEN [checks EXCEPT ![c] =
                                    [at |-> ck.at, key |-> key, payload |-> me.payload,
                                     target |-> me.payload.imageDatName,
                                     val |-> ck.val, has |-> ck.has]]
                            ELSE checks
               /\ mq' = IF start /\ ck.at = "then" THEN Append(Tail(mq), Item("then", c, 0))
                        ELSE IF start /\ ck.at = "thumb" THEN Append(Tail(mq), Item("check", c, ck.hops))
                        ELSE Tail(mq)
     IN  IF l1.hit # 0
         THEN found(keys[l1.hit], MapGet(l1.rc, keys[l1.hit]), l1.rc)
         ELSE IF probe # {}
         THEN \E e \in findCachedOutput(fs, keys[first]) :
                 found(keys[first], e,
                       cacheResolvedPaths(l1.rc, keys[first], me.payload.imageMd5,
                                          me.payload.imageDatName, e))
         ELSE /\ resolvedCache' = l1.rc
              /\ calls' = [calls EXCEPT ![c] = Finish(snap, Fail("nocache"), l1.rc, updateFlags, writes)]
              /\ mq' = Tail(mq)
              /\ UNCHANGED <<updateFlags, emitCount, checks>>
  /\ wasFull' = wasFull \cup FullKeys(resolvedCache')
  /\ UNCHANGED <<codec, lookup, world, fs, writes, pending, cacheIndexed, indexTodo, tasks,
                 ioFaults, removals>>

(***************************************************************************)
(* checkHasUpdate and the callback of triggerUpdateCheck                   *)
(***************************************************************************)
CheckAt(c, at) == AtHead("check", c) /\ checks[c].at = at

\* A search worker of a check posts its result: the thumbnail search of
\* searchDatFile (cwalk) or the search of searchDatFileInDir (dwalk)
CheckWorkerDone(c) ==
  /\ mq = <<>>
  /\ ~Indexing
  /\ checks[c].at \in {"cwalk", "dwalk"}
  /\ LET ck    == checks[c]
         found == IF ck.at = "cwalk"
                  THEN walkForDat(readdir(fs, AttachDir), toLowerCase(ck.target), TRUE, TRUE)
                  ELSE walkForDat(readdir(fs, dirname(ck.val)),
                                  toLowerCase(baseNameOf(ck.payload, ck.key)), FALSE, FALSE)
     IN  /\ \E v \in (IF found = {} THEN {NoPath} ELSE found) :
               checks' = [checks EXCEPT ![c].val = v,
                                        ![c].at = IF ck.at = "cwalk" THEN "csearch" ELSE "hit"]
         /\ mq' = <<Item("check", c, IF ck.at = "cwalk" THEN 1 ELSE 2)>>
  /\ UNCHANGED <<codec, lookup, world, fs, writes, resolvedCache, pending, updateFlags, cacheIndexed,
                 indexTodo, calls, tasks, emitCount, wasFull, ioFaults, removals>>

\* searchDatFile of the check after `await this.walkForDatInWorker(...)`
CheckSearch(c) ==
  /\ CheckAt(c, "csearch")
  /\ resolvedCache' = IF checks[c].val # NoPath
                      THEN MapSet(resolvedCache, datKey(checks[c].target), checks[c].val)
                      ELSE resolvedCache
  /\ checks' = [checks EXCEPT ![c].at = "thumb"]
  /\ mq' = Append(Tail(mq), Item("check", c, 1))
  /\ wasFull' = wasFull \cup FullKeys(resolvedCache')
  /\ UNCHANGED <<codec, lookup, world, fs, writes, pending, updateFlags, cacheIndexed, indexTodo,
                 calls, tasks, emitCount, ioFaults, removals>>

\* checkHasUpdate after `await this.resolveThumbnailDatPath(...)`
CheckThumb(c) ==
  /\ CheckAt(c, "thumb")
  /\ LET ck == checks[c]
         r  == checkHasUpdateResume(fs, ck.payload, ck.key, ck.val)
     IN  /\ checks' = [checks EXCEPT ![c].at = r.at, ![c].has = r.has]
         /\ mq' = IF r.at = "then" THEN Append(Tail(mq), Item("then", c, 0)) ELSE Tail(mq)
  /\ UNCHANGED <<codec, lookup, world, fs, writes, resolvedCache, pending, updateFlags, cacheIndexed,
                 indexTodo, calls, tasks, emitCount, wasFull, ioFaults, removals>>

\* checkHasUpdate after `await this.searchDatFileInDir(...)`
CheckHit(c) ==
  /\ CheckAt(c, "hit")
  /\ checks' = [checks EXCEPT ![c].at = "then",
                              ![c].has = /\ checks[c].val # NoPath
                                         /\ isNonThumbnailVariantDat(checks[c].val)]
  /\ mq' = Append(Tail(mq), Item("then", c, 0))
  /\ UNCHANGED <<codec, lookup, world, fs, writes, resolvedCache, pending, updateFlags, cacheIndexed,
                 indexTodo, calls, tasks, emitCount, wasFull, ioFaults, removals>>

\* The callback of triggerUpdateCheck: the flag is set and the event sent
CheckThen(c) ==
  /\ AtHead("then", c)
  /\ checks' = [checks EXCEPT ![c].at = "done"]
  /\ updateFlags' = IF checks[c].has THEN updateFlags \cup {checks[c].key} ELSE updateFlags
  /\ emitCount' = IF checks[c].has THEN Emit(emitCount, checks[c].key) ELSE emitCount
  /\ mq' = Tail(mq)
  /\ UNCHANGED <<codec, lookup, world, fs, writes, resolvedCache, pending, cacheIndexed, indexTodo,
                 calls, tasks, wasFull, ioFaults, removals>>

(***************************************************************************)
(* The environment                                                         *)
(***************************************************************************)
\* A file of the cache directory is removed from outside
RemoveCacheFile(p) ==
  /\ mq = <<>>
  /\ ~Indexing
  /\ cacheIndexed
  /\ ioFaults + removals < MaxFaults
  /\ p \in readdir(fs, CacheRoot)
  /\ fs' = fs \ {p}
  /\ removals' = removals + 1
  /\ UNCHANGED <<codec, lookup, world, writes, resolvedCache, pending, updateFlags, cacheIndexed,
                 indexTodo, calls, tasks, checks, mq, emitCount, wasFull, ioFaults>>

Next ==
  \/ \E c \in Calls, payload \in Payloads :
        \/ Invoke(c, "resolve", payload, FALSE)
        \/ \E force \in BOOLEAN : Invoke(c, "decrypt", payload, force)
        \/ InvokeRejected(c, "resolve", payload, FALSE)
        \/ \E force \in BOOLEAN : InvokeRejected(c, "decrypt", payload, force)
  \/ \E p \in InitialCacheFiles : IndexStep(p)
  \/ \E c \in Calls : IndexDone(c)
  \/ Hop
  \/ \E c \in Calls :
        \/ DecryptEnter(c) \/ JoinThen(c) \/ JoinDone(c) \/ CallFin(c)
        \/ ResolveEnter(c)
        \/ WorkerDone(c) \/ (\E how \in {"error", "exit"} : WorkerFail(c, how))
        \/ TaskSearch(c) \/ TaskRdp(c) \/ TaskInt(c) \/ TaskDec(c)
        \/ \E outcome \in {"ok", "fail", "partial"} : WriteDone(c, outcome)
        \/ TaskWrote(c) \/ TaskThen(c) \/ TaskAdopt(c)
        \/ CheckWorkerDone(c) \/ CheckSearch(c) \/ CheckThumb(c) \/ CheckHit(c)
        \/ CheckThen(c)
  \/ \E p \in InitialCacheFiles : RemoveCacheFile(p)

Spec == Init /\ [][Next]_vars

\* What the event loop, the workers that answer and the file system do of
\* themselves: every step but a new call and a failure of the environment
Progress ==
  \/ \E p \in InitialCacheFiles : IndexStep(p)
  \/ \E c \in Calls : IndexDone(c)
  \/ Hop
  \/ \E c \in Calls :
        \/ DecryptEnter(c) \/ JoinThen(c) \/ JoinDone(c) \/ CallFin(c)
        \/ ResolveEnter(c)
        \/ WorkerDone(c) \/ TaskSearch(c) \/ TaskRdp(c) \/ TaskInt(c) \/ TaskDec(c)
        \/ WriteDone(c, "ok")
        \/ TaskWrote(c) \/ TaskThen(c) \/ TaskAdopt(c)
        \/ CheckWorkerDone(c) \/ CheckSearch(c) \/ CheckThumb(c) \/ CheckHit(c)
        \/ CheckThen(c)

\* When a step of Progress can be taken: a promise job is queued, the
\* startup index runs, a search worker runs or a write is under way
Runnable ==
  \/ mq # <<>>
  \/ Indexing
  \/ \E c \in Calls : tasks[c].at \in {"walk", "write"}
  \/ \E c \in Calls : checks[c].at \in {"cwalk", "dwalk"}

\* Weak fairness of the ticks of the event loop, and of Progress as a whole
\* with its enabledness written out as Runnable
Fairness ==
  /\ WF_vars(Hop)
  /\ ([]<>(~Runnable)) \/ ([]<><<Progress>>_vars)

\* The service with an event loop that runs every job queued, workers that
\* run to their end and a file system that completes every write
FairSpec == Spec /\ Fairness

(***************************************************************************)
(* The decoder at work on containers made for it                           *)
(***************************************************************************)
\* The encoder the containers of the model are made with: a 15-byte header
\* (signature, aesSize and xorSize as little-endian 32-bit numbers, one more
\* byte), the PKCS7-padded and enciphered first part, the raw part, the
\* XORed last part
int32le(n) ==
  LET u == IF n < 0 THEN (n + 2147483647) + 1 ELSE n
  IN  <<u % 256, (u \div 256) % 256, (u \div 65536) % 256,
        (u \div 16777216) + (IF n < 0 THEN 128 ELSE 0)>>

pkcs7Pad(p) ==
  LET n == BlockLen - (Len(p) % BlockLen)
  IN  p \o [i \in 1..n |-> n]

encipherBlock(key, block) ==
  [j \in 1..BlockLen |->
     LET i == IF j = 1 THEN BlockLen ELSE j - 1
     IN  (block[i] + key[i]) % 256]

encipherEcb(key, data) ==
  [i \in 1..Len(data) |->
     LET blk == (i - 1) \div BlockLen
         j   == ((i - 1) % BlockLen) + 1
     IN  encipherBlock(key, SubSeq(data, blk * BlockLen + 1, (blk + 1) * BlockLen))[j]]

encodeHybrid(b) ==
  b.sig \o int32le(Len(b.aesPart)) \o int32le(Len(b.xorPart)) \o <<1>>
    \o encipherEcb(b.aesKey, pkcs7Pad(b.aesPart))
    \o b.rawPart
    \o [i \in 1..Len(b.xorPart) |-> ByteOf(BitXor(b.xorPart[i], b.xorKey))]

\* The byte strings of up to MaxLegacyLen bytes over a few byte values
MaxLegacyLen == 3
RECURSIVE ByteStrings(_)
ByteStrings(n) ==
  IF n = 0 THEN {<<>>}
  ELSE ByteStrings(n - 1) \cup
       { Append(s, v) : s \in { t \in ByteStrings(n - 1) : Len(t) = n - 1 },
                        v \in {0, 55, 255} }

\* What the decoder is put to work on:
\*   image   the key lookup and decryptDatAuto, on containers as the encoder
\*           makes them and on files that are no container of the two hybrid
\*           versions, or hardly one, under each configured XOR key (0 as
\*           well) and under none, with each AES key string, and on damaged
\*           containers under the keys they were made with
\*   legacy  decryptDatV3, on short byte strings and on those files
\*   hybrid  decryptDatV4, on the containers with the keys they were made
\*           with or others, and on containers whose header sizes were
\*           overwritten or whose end was cut off
\*   unpad   strictRemovePadding, on data ending in a run of one byte value
CodecInputs ==
  LET Rep(n, v) == [i \in 1..n |-> v]
      Ramp(n)   == [i \in 1..n |-> (i * 37) % 256]
      UserKeyString ==
        <<"0","1","2","3","4","5","6","7","8","9","a","b","c","d","e","f">>
      AesKeyRaws ==
        { <<>>, <<" ">>, <<"a","b","c">>, UserKeyString,
          <<" ">> \o UserKeyString \o <<"0"," ">>, defaultV1AesKey }
      XorKeys    == {0, 55, 255}
      EncXorKeys == {55, 255}
      EncAesKeys == { asciiKey16(UserKeyString).out, asciiKey16(defaultV1AesKey).out }
      Builds ==
        [sig : {SigV1, SigV2},
         aesPart : { <<>>, <<255, 216, 255>>, Ramp(15), Rep(16, 16), Ramp(17) },
         rawPart : { <<>>, <<9, 0>> },
         xorPart : { <<>>, <<1, 2, 3>> },
         xorKey : EncXorKeys, aesKey : EncAesKeys]
      LegacyFiles ==
        { <<>>, <<7>>, <<7, 8, 86, 49, 8>>, <<7, 8, 86, 51, 8, 7>> \o Ramp(12),
          <<8, 7, 86, 49, 8, 7>> \o Ramp(12), Ramp(20), SigV1, SigV2,
          SigV1 \o Ramp(3), SigV2 \o Ramp(3) }
      withAesSize(bytes, n) ==
        SubSeq(bytes, 1, 6) \o int32le(n) \o SubSeq(bytes, 11, Len(bytes))
      withXorSize(bytes, n) ==
        SubSeq(bytes, 1, 10) \o int32le(n) \o SubSeq(bytes, 15, Len(bytes))
      Damaged(bytes) ==
        { withAesSize(bytes, n) :
            n \in {0, 1, 15, 16, 17, 31, 32, 33, 48, 2147483616, -1, -16, -20} }
        \cup { withXorSize(bytes, n) : n \in {0, 1, 4, -1} }
        \cup { SubSeq(bytes, 1, Len(bytes) - n) : n \in {1, 3, 16} }
      UnpadInputs ==
        {<<>>} \cup
        { pre \o Rep(n, v) : pre \in {<<>>, <<7>>, <<3, 3>>},
                             n \in {1, 2, 3, 15, 16, 17},
                             v \in {0, 1, 2, 3, 15, 16, 17, 200} }
      Work(fn, bytes, xorKey, aesKeyRaw, aesKey, build, intact) ==
        [NoCodec EXCEPT !.fn = fn, !.at = "new", !.bytes = bytes, !.xorKey = xorKey,
                        !.xorSet = xorKey # 0, !.aesKeyRaw = aesKeyRaw, !.aesKey = aesKey, !.build = build,
                        !.intact = intact]
      Images ==
        { Work("image", encodeHybrid(b), k, raw, <<>>, b, TRUE) :
            b \in Builds, k \in XorKeys, raw \in AesKeyRaws }
        \cup { Work("image", f, k, raw, <<>>, NoBuild, FALSE) :
                 f \in LegacyFiles, k \in XorKeys, raw \in AesKeyRaws }
  IN  Images
      \cup { [j EXCEPT !.xorSet = TRUE] : j \in { i \in Images : i.xorKey = 0 } }
      \cup UNION { { Work("image", d, b.xorKey, raw, <<>>, b, FALSE) :
                       d \in Damaged(encodeHybrid(b)),
                       raw \in { r \in AesKeyRaws : asciiKey16(r).ok
                                                     /\ asciiKey16(r).out = b.aesKey } } :
                  b \in Builds }
      \cup { Work("legacy", x, k, <<>>, <<>>, NoBuild, FALSE) :
               x \in ByteStrings(MaxLegacyLen) \cup LegacyFiles,
               k \in {0, 1, 55, 128, 255} }
      \cup { Work("hybrid", encodeHybrid(b), k, <<>>, a, b, TRUE) :
               b \in Builds, k \in EncXorKeys, a \in EncAesKeys }
      \cup UNION { { Work("hybrid", d, b.xorKey, <<>>, b.aesKey, b, FALSE) :
                       d \in Damaged(encodeHybrid(b)) } : b \in Builds }
      \cup { Work("unpad", d, 0, <<>>, <<>>, NoBuild, FALSE) : d \in UnpadInputs }

CodecInit ==
  /\ world = [files |-> {}, hlFile |-> <<>>, bad |-> {}, acct |-> TRUE, xor |-> TRUE,
              hl |-> "nofile", dir1 |-> "", dir2 |-> "", dirTable |-> "none",
              dirName |-> "", session |-> ""]
  /\ fs = {}
  /\ InitRest
  /\ codec \in CodecInputs
  /\ lookup = NoLookup

\* `if (!xorKey)`: undefined and 0 alike
missingXorKey(xorKey, xorSet) == xorKey = 0

\* decryptImageInternal from `const xorKey = ...` to resolveAesKey
CodecKeys ==
  /\ codec.fn = "image" /\ codec.at = "new"
  /\ LET aesKey == resolveAesKey(codec.aesKeyRaw)
     IN  codec' =
           IF missingXorKey(codec.xorKey, codec.xorSet)
           THEN [codec EXCEPT !.at = "done", !.res = Thrown("xorkey"),
                              !.result = decryptResult(Thrown("xorkey"))]
           ELSE IF ~aesKey.ok
           THEN [codec EXCEPT !.at = "done", !.res = aesKey,
                              !.result = decryptResult(aesKey)]
           ELSE [codec EXCEPT !.at = "keys", !.aesKey = aesKey.out]
  /\ UNCHANGED <<svc, lookup>>

\* await this.decryptDatAuto(datPath, xorKey, aesKey)
CodecAuto ==
  /\ codec.fn = "image" /\ codec.at = "keys"
  /\ LET decrypted == decryptDatBytes(codec.bytes, codec.xorKey, codec.aesKey)
     IN  codec' = [codec EXCEPT !.at = "done", !.res = decrypted,
                                !.result = decryptResult(decrypted)]
  /\ UNCHANGED <<svc, lookup>>

\* decryptDatV3 on the file, and once more on what it returned
CodecLegacy ==
  /\ codec.fn = "legacy" /\ codec.at \in {"new", "once"}
  /\ codec' = IF codec.at = "new"
              THEN [codec EXCEPT !.at = "once", !.res = decryptDatV3(codec.bytes, codec.xorKey)]
              ELSE [codec EXCEPT !.at = "done", !.res2 = decryptDatV3(codec.res.out, codec.xorKey)]
  /\ UNCHANGED <<svc, lookup>>

CodecHybrid ==
  /\ codec.fn = "hybrid" /\ codec.at = "new"
  /\ codec' = [codec EXCEPT !.at = "done",
                            !.res = decryptDatV4(codec.bytes, codec.xorKey, codec.aesKey)]
  /\ UNCHANGED <<svc, lookup>>

CodecUnpad ==
  /\ codec.fn = "unpad" /\ codec.at = "new"
  /\ codec' = [codec EXCEPT !.at = "done", !.res = strictRemovePadding(codec.bytes)]
  /\ UNCHANGED <<svc, lookup>>

CodecNext == CodecKeys \/ CodecAuto \/ CodecLegacy \/ CodecHybrid \/ CodecUnpad

CodecSpec == CodecInit /\ [][CodecNext]_vars

(***************************************************************************)
(* The lookups at work on account directories made for them                *)
(***************************************************************************)
\* searchDatFile from its call to its return, the walk of the worker
\* included: the path it can return with the index it leaves
searchDatFileDone(rc, files, datName, allowThumbnail, thumbOnly) ==
  LET key   == datKey(datName)
      found == walkForDat(readdir(files, AttachDir), toLowerCase(datName),
                          allowThumbnail, thumbOnly)
  IN  IF Remembered(rc, files, key, allowThumbnail)
      THEN { [path |-> MapGet(rc, key), rc |-> rc] }
      ELSE IF found = {} THEN { [path |-> NoPath, rc |-> rc] }
      ELSE { [path |-> f, rc |-> MapSet(rc, key, f)] : f \in found }

\* dirName.trim(), then /^(wxid_[^_]+)/i for a name that begins with wxid_,
\* else the name without a last segment of four letters or digits
cleanAccountDirName(dirName) ==
  LET trimmed == trim(dirName)
      isAlnum(ch) == ch \in DigitChars \/ IsLowerAlpha(LowerChar(ch))
      run == { n \in 6..Len(trimmed) : \A i \in 6..n : trimmed[i] # "_" }
      top == CHOOSE n \in run : \A m \in run : m <= n
  IN  IF trimmed = <<>> THEN trimmed
      ELSE IF startsWith(toLowerCase(trimmed), <<"w","x","i","d","_">>)
      THEN IF run # {} THEN SubSeq(trimmed, 1, top) ELSE trimmed
      ELSE IF /\ Len(trimmed) >= 6
              /\ trimmed[Len(trimmed) - 4] = "_"
              /\ \A i \in (Len(trimmed) - 3)..Len(trimmed) : isAlnum(trimmed[i])
      THEN dropLast(trimmed, 5)
      ELSE trimmed

\* What resolveAccountDir returns: null, dbPath itself, or an entry of it
NoDir == [kind |-> "null", name |-> <<>>]
RootDir == [kind |-> "root", name |-> <<>>]
EntryDir(name) == [kind |-> "entry", name |-> name]

\* resolveAccountDir on a dbPath that exists: root is what it holds (entries
\* [name, isDir, marked], marked: isAccountDir holds of it), rootMarked is
\* isAccountDir(dbPath); the directories it can return, one for each order of
\* the listing
resolveAccountDir(root, rootMarked, wxid) ==
  LET cleanedWxid == cleanAccountDirName(wxid)
      lowerWxid   == toLowerCase(cleanedWxid)
      scan == { e \in root :
                  /\ e.isDir
                  /\ \/ toLowerCase(e.name) = lowerWxid
                     \/ startsWith(toLowerCase(e.name), lowerWxid \o <<"_">>)
                  /\ e.marked }
  IN  IF cleanedWxid = <<>> THEN {RootDir}
      ELSE IF \E e \in root : e.name = cleanedWxid THEN {EntryDir(cleanedWxid)}
      ELSE IF rootMarked THEN {RootDir}
      ELSE IF scan # {} THEN { EntryDir(e.name) : e \in scan }
      ELSE {NoDir}

\* A content hash, as the names of the containers carry it
Hash == <<"0","0","1","1","2","2","3","3","a","a","b","b","c","c","d","d">>

\* The directory walk.  The tree below the search root is a chain of
\* directories c, Deep levels deep, with a directory s beside some of them.
\* A directory is [c |-> i, s |-> b]: the chain directory of level i, or
\* (b) the directory s inside it.  tree.unreadable: readdirSync throws;
\* tree.broken: statSync throws; tree.holds: the directories with a container.
Deep == 10
SearchDepth == 8
InDirDepth == 3

ChainDir(i) == [c |-> i, s |-> FALSE]
SideDir(i)  == [c |-> i, s |-> TRUE]

RECURSIVE chainName(_)
chainName(i) == IF i = 0 THEN AttachDir ELSE chainName(i - 1) \o "/c"

dirPath(d) == IF d.s THEN chainName(d.c) \o "/s" ELSE chainName(d.c)

\* The entries of directory d that are directories
subdirs(tree, d) ==
  IF d.s THEN {}
  ELSE (IF d.c < Deep THEN {ChainDir(d.c + 1)} ELSE {})
       \cup (IF d.c \in tree.sides THEN {SideDir(d.c)} ELSE {})

\* Seeded fault: the walk goes one level deeper
descendsLate(depth, maxDepth) == depth <= maxDepth

\* `if (current.depth < maxDepth)`: a directory found at this depth is pushed
descends(depth, maxDepth) == depth < maxDepth

\* One pass of `while (stack.length)`: a directory is popped and listed; its
\* directories are pushed, in the order of the listing, its container is
\* collected.  An unreadable directory and an entry that cannot be stat'ed
\* are passed over.
walkStep(job) ==
  LET current == job.stack[Len(job.stack)]
      rest    == SubSeq(job.stack, 1, Len(job.stack) - 1)
      dirs    == IF descends(current.depth, job.maxDepth)
                 THEN subdirs(job.tree, current.dir) \ job.tree.broken
                 ELSE {}
      orders  == { q \in UNION { [1..n -> dirs] : n \in 0..2 } :
                     /\ Len(q) = Cardinality(dirs)
                     /\ \A i, j \in 1..Len(q) : q[i] = q[j] => i = j }
      file    == join(dirPath(current.dir), lookup.datName \o <<"_","h">> \o ExtDat)
  IN  IF current.dir \in job.tree.unreadable
      THEN { [job EXCEPT !.stack = rest, !.listed = Append(@, current.dir)] }
      ELSE { [job EXCEPT
                !.stack = rest \o [i \in 1..Len(q) |-> [dir |-> q[i], depth |-> current.depth + 1]],
                !.listed = Append(@, current.dir),
                !.found = IF current.dir \in job.tree.holds THEN @ \cup {file} ELSE @] :
             q \in orders }

\* walkForDat(root, datName, maxDepth, allowThumbnail, thumbOnly): a pass of
\* the loop, or the choice among the candidates once the stack is empty
LookupWalk ==
  /\ lookup.fn = "walk" /\ lookup.at = "new"
  /\ IF lookup.stack = <<>>
     THEN LET out == walkForDat(lookup.found, toLowerCase(lookup.datName),
                                lookup.allowThumbnail, lookup.thumbOnly)
          IN  \E v \in (IF out = {} THEN {NoPath} ELSE out) :
                 lookup' = [lookup EXCEPT !.at = "done", !.res = v]
     ELSE \E j \in walkStep(lookup) : lookup' = j
  /\ UNCHANGED <<svc, codec>>

\* What the lookups are put to work on:
\*   hardlink  resolveHardlinkPath and resolveDatPath for the hash KeyAb, on
\*             every state of hardlink.db and of the dir2id table, every row
\*             (a thumbnail, a full image, a bare hash with and without the
\*             extension, an image, a name of no known shape; a row with an
\*             empty dir1 or dir2; no row) and every set of the files the row
\*             can stand for
\*   search    searchDatFile for the name Hash, and once more for thumbnails
\*             only, on every set of six files of msg/attach
\*   account   resolveAccountDir for five account ids, on a dbPath with up to
\*             four entries, each a file, a directory or an account directory
\*   normalize normalizeDatBase, on names made of a stem and up to three
\*             endings, each a variant suffix or an extension
LookupCases ==
  LET NameEnds ==
        { <<>>, <<"_","t">>, <<".","h">>, <<"_","T">>, <<"_","1">>, ExtDat,
          <<".","D","A","T">>, ExtJpg, ExtPng }
      NoIndex ==
        [files |-> {}, hlFile |-> <<>>, bad |-> {}, acct |-> TRUE, xor |-> TRUE,
         hl |-> "nofile", dir1 |-> "", dir2 |-> "", dirTable |-> "none",
         dirName |-> "", session |-> ""]
      RowNames ==
        { Hash \o <<"_","t">> \o ExtDat, Hash \o <<"_","h">> \o ExtDat,
          Hash \o ExtDat, Hash, Hash \o ExtJpg, <<"i","m","g">> \o ExtDat }
      Rows ==
        { [dir1 |-> "d1", dir2 |-> "d2", fileName |-> n] : n \in RowNames }
        \cup { [dir1 |-> "", dir2 |-> "d2", fileName |-> Hash \o <<"_","h">> \o ExtDat],
               [dir1 |-> "d1", dir2 |-> "", fileName |-> Hash \o <<"_","h">> \o ExtDat],
               [dir1 |-> "d1", dir2 |-> "d2", fileName |-> <<>>] }
      Targets(r) ==
        { join(r.dir1 \o "/" \o d, n) :
            d \in {r.dir2, "al"}, n \in {r.fileName, r.fileName \o ExtDat} }
      Indexes ==
        { x \in [hl : {"ok", "nofile", "noopen", "notable", "queryerr"},
                 dirTable : {"none", "ok", "err"}, dirName : {"", "al"},
                 session : {"", "s"}] :
            /\ (x.hl # "ok" => x.dirTable = "ok" /\ x.dirName = "al")
            /\ (x.dirTable = "none" => x.dirName = "") }
      HardlinkWorlds ==
        UNION { { [NoIndex EXCEPT !.files = f, !.hlFile = r.fileName, !.dir1 = r.dir1,
                                  !.dir2 = r.dir2, !.hl = x.hl, !.dirTable = x.dirTable,
                                  !.dirName = x.dirName, !.session = x.session] :
                    f \in SUBSET Targets(r), x \in Indexes } : r \in Rows }
      AttachFiles ==
        { join(AttachDir, n) :
            n \in { Hash \o ExtDat, Hash \o <<"_","t">> \o ExtDat,
                    Hash \o <<".","c">> \o ExtDat, Hash \o <<"_","h">> \o ExtDat,
                    <<"x">> \o Hash \o <<"y">> \o ExtDat,
                    <<"x">> \o Hash \o <<"y","_","h">> \o ExtDat } }
      Wxids ==
        { <<"w","x","i","d","_","a","b","_","c","d","1","2">>,
          <<"W","x","i","d","_","a","b">>,
          <<" ","a","b","_","c","d","1","2"," ">>,
          <<"a","b">>, <<" ">> }
      EntryNames ==
        { <<"w","x","i","d","_","a","b">>,
          <<"w","x","i","d","_","a","b","_","c","d","1","2">>,
          <<"a","b">>, <<"A","B","_","z","z">> }
      Entries ==
        { [name |-> n, isDir |-> k[1], marked |-> k[2]] :
            n \in EntryNames, k \in {<<FALSE, FALSE>>, <<TRUE, FALSE>>, <<TRUE, TRUE>>} }
      Roots ==
        { r \in SUBSET Entries : \A e1, e2 \in r : e1.name = e2.name => e1 = e2 }
  IN  { [world |-> w,
         job   |-> [NoLookup EXCEPT !.fn = "hardlink", !.at = "new", !.payload = p,
                                    !.allowThumbnail = a]] :
          w \in HardlinkWorlds, a \in BOOLEAN,
          p \in { q \in Payloads : q.imageMd5 = KeyAb } }
      \cup { [world |-> [NoIndex EXCEPT !.files = f],
              job   |-> [NoLookup EXCEPT !.fn = "search", !.at = "new", !.datName = Hash,
                                         !.allowThumbnail = a, !.thumbOnly = t]] :
               f \in SUBSET AttachFiles, a \in BOOLEAN, t \in BOOLEAN }
      \cup { [world |-> NoIndex,
              job   |-> [NoLookup EXCEPT !.fn = "account", !.at = "new", !.wxid = x,
                                         !.root = r, !.rootMarked = m]] :
               x \in Wxids, r \in Roots, m \in BOOLEAN }
      \cup { [world |-> NoIndex,
              job   |-> [NoLookup EXCEPT !.fn = "output", !.at = "new", !.ext = e,
                                         !.datPath = join(AttachDir, Hash \o v \o d)]] :
               v \in { <<>>, <<"_","t">>, <<".","t">>, <<"_","T">>, <<"_","h">>,
                       <<".","h">>, <<".","c">>, <<"_","t","_","h">> },
               d \in { ExtDat, <<".","D","A","T">> },
               e \in { ExtJpg, ExtPng } }
      \cup { [world |-> NoIndex,
              job   |-> [NoLookup EXCEPT !.fn = "normalize", !.at = "new",
                                         !.datName = stem \o s1 \o s2 \o s3]] :
               stem \in { <<>>, <<"A","b">>, Hash },
               s1 \in NameEnds, s2 \in NameEnds, s3 \in NameEnds }
      \cup { [world |-> NoIndex,
              job   |-> [NoLookup EXCEPT !.fn = "walk", !.at = "new", !.datName = Hash,
                                         !.tree = t, !.maxDepth = m,
                                         !.stack = <<[dir |-> ChainDir(0), depth |-> 0]>>]] :
               m \in {SearchDepth, InDirDepth},
               t \in [sides : {{}, {2}, {8}, {2, 9}},
                      unreadable : {{}, {ChainDir(0)}, {ChainDir(2)}, {SideDir(2)}},
                      broken : {{}, {ChainDir(3)}, {SideDir(8)}, {ChainDir(9)}},
                      holds : {{}, {ChainDir(0)}, {ChainDir(3)}, {ChainDir(4)},
                               {ChainDir(8)}, {ChainDir(9)}, {SideDir(8)},
                               {SideDir(2), ChainDir(9)}}] }

LookupInit ==
  /\ \E k \in LookupCases :
        /\ world = k.world
        /\ fs = k.world.files
        /\ lookup = k.job
  /\ InitRest
  /\ codec = NoCodec

\* resolveDatPath(accountDir, imageMd5, imageDatName, sessionId, options) up
\* to its first await, with the resolveHardlinkPath it begins with
LookupHardlink ==
  /\ lookup.fn = "hardlink" /\ lookup.at = "new"
  /\ LET r == resolveDatPath(world, lookup.rc, fs, lookup.payload,
                             lookup.allowThumbnail, TRUE)
     IN  lookup' = [lookup EXCEPT
                      !.at = "done",
                      !.res = resolveHardlinkPath(world, fs, lookup.payload.imageMd5),
                      !.next = r.at, !.res2 = r.val, !.rc = r.rc]
  /\ UNCHANGED <<svc, codec>>

\* searchDatFile(accountDir, datName, allowThumbnail, thumbOnly), and then
\* searchDatFile(accountDir, datName, true, true)
LookupSearch ==
  /\ lookup.fn = "search" /\ lookup.at \in {"new", "once"}
  /\ IF lookup.at = "new"
     THEN \E out \in searchDatFileDone(lookup.rc, fs, lookup.datName,
                                       lookup.allowThumbnail, lookup.thumbOnly) :
             lookup' = [lookup EXCEPT !.at = "once", !.res = out.path, !.rc = out.rc]
     ELSE \E out \in searchDatFileDone(lookup.rc, fs, lookup.datName, TRUE, TRUE) :
             lookup' = [lookup EXCEPT !.at = "done", !.res2 = out.path, !.rc = out.rc]
  /\ UNCHANGED <<svc, codec>>

LookupAccount ==
  /\ lookup.fn = "account" /\ lookup.at = "new"
  /\ \E d \in resolveAccountDir(lookup.root, lookup.rootMarked, lookup.wxid) :
        lookup' = [lookup EXCEPT !.at = "done", !.dir = d]
  /\ UNCHANGED <<svc, codec>>

\* getCacheOutputPathFromDat(datPath, ext), as decryptImageInternal calls it
\* for the container it has decoded
LookupOutput ==
  /\ lookup.fn = "output" /\ lookup.at = "new"
  /\ lookup' = [lookup EXCEPT !.at = "done",
                               !.outputPath = getCacheOutputPathFromDat(lookup.datPath, lookup.ext)]
  /\ UNCHANGED <<svc, codec>>

\* normalizeDatBase(name), and then normalizeDatBase of what it returned
LookupNormalize ==
  /\ lookup.fn = "normalize" /\ lookup.at \in {"new", "once"}
  /\ lookup' = IF lookup.at = "new"
               THEN [lookup EXCEPT !.at = "once", !.base = normalizeDatBase(lookup.datName)]
               ELSE [lookup EXCEPT !.at = "done", !.base2 = normalizeDatBase(lookup.base)]
  /\ UNCHANGED <<svc, codec>>

LookupNext ==
  \/ LookupHardlink \/ LookupSearch \/ LookupAccount \/ LookupWalk \/ LookupOutput
  \/ LookupNormalize

LookupSpec == LookupInit /\ [][LookupNext]_vars

(***************************************************************************)
(* Properties                                                              *)
(***************************************************************************)
Decrypts == { c \in Calls : calls[c].op = "decrypt" }
Resolves == { c \in Calls : calls[c].op = "resolve" }
InFlight(c) == c \in Decrypts /\ calls[c].pc = "wait"
Undisturbed == ioFaults = 0 /\ removals = 0

C2_JoinedResult ==
  \A c \in Decrypts :
     calls[c].seen # 0 =>
        /\ tasks[c].at = "none"
        /\ calls[c].pc \in {"join", "done"}
        /\ (calls[c].pc = "done" =>
               /\ tasks[calls[c].seen].at = "settled"
               /\ calls[c].result = tasks[calls[c].seen].res)

\* A forced call has returned the success of the task it found in flight
C2_Witness ==
  \E c \in Decrypts :
     /\ calls[c].seen # 0 /\ calls[c].force
     /\ calls[c].pc = "done" /\ calls[c].result.success

\* C3: a cache key that has pointed at a non-thumbnail output does not point
\* at a thumbnail output (stated for the runs in which no write failed and
\* no cache file was removed from outside).
C3_NeverDowngraded ==
  Undisturbed => \A k \in wasFull : k \notin ThumbKeys(resolvedCache)

\* What in the world makes a forced refresh able to succeed: the original
\* container exists and decodes, the account and the keys are configured
Genuine ==
  /\ FullDat \in world.files
  /\ world.bad = {}
  /\ world.acct /\ world.xor

\* C4: a forced decrypt call that ran alone, on a key cached as a thumbnail
\* output, for a reference with a container name or a hardlink row, in a
\* world where the original container exists and decodes and the keys are
\* configured, returns success and leaves the key pointing at a
\* non-thumbnail output with its update flag unset.
C4_ForcedRefresh ==
  \A c \in Decrypts :
     ( /\ calls[c].pc = "done" /\ calls[c].force /\ calls[c].alone
       /\ calls[c].preThumb
       /\ Genuine /\ Undisturbed
       /\ (calls[c].payload.imageDatName # <<>> \/ world.hlFile # <<>>) )
     => /\ calls[c].result.success
        /\ calls[c].key \in FullKeys(calls[c].post)
        /\ ~calls[c].postFlag

\* C5: a key whose update flag is set is not cached as a non-thumbnail
\* output (stated for the undisturbed runs).
C5_FlagOnlyOnThumbnail ==
  Undisturbed => \A k \in updateFlags : k \notin FullKeys(resolvedCache)

\* C6: since the flag of a key was last unset, at most one
\* image:updateAvailable event was sent for the key.
C6_OneEventPerFlag ==
  \A k \in DOMAIN emitCount : emitCount[k] <= 1

\* C7: a decrypt call that ran alone and returned a failure left the index
\* entries of its reference's keys as they were when it began, and wrote no
\* file below the cache root (stated for the undisturbed runs, where the
\* failure is one of configuration, lookup or decoding).
C7_FailureChangesNothing ==
  \A c \in Decrypts :
     (calls[c].pc = "done" /\ ~calls[c].result.success /\ calls[c].alone /\ Undisturbed)
     => /\ calls[c].post = calls[c].pre
        /\ calls[c].postWrites = calls[c].preWrites
\* C8: the in-flight table holds a key exactly while the call that started
\* the key's task awaits it, that is from the start of the task until the
\* task has settled and the call resumed; it is empty when no decrypt call is
\* in progress; and an entry leaves the table only when its task has settled
\* and the call that installed it returns.
C8_TableFollowsTasks ==
  /\ [](\A k \in DOMAIN pending :
           /\ InFlight(pending[k])
           /\ calls[pending[k]].key = k
           /\ tasks[pending[k]].at # "none")
  /\ [](\A c \in Calls : InFlight(c) => pendingGet(pending, calls[c].key) = c)
  /\ []((\A c \in Decrypts : ~Running(c)) => DOMAIN pending = {})
  /\ [][\A k \in DOMAIN pending :
           k \notin DOMAIN pending' =>
              /\ tasks[pending[k]].at = "settled"
              /\ calls'[pending[k]].pc = "done"]_vars

\* A call has returned the result of a task another call had installed, the
\* installing call has returned too, and the table is empty again
C8_Witness ==
  /\ DOMAIN pending = {}
  /\ \E c, d \in Decrypts :
        /\ c # d /\ calls[d].seen = c
        /\ calls[c].pc = "done" /\ calls[d].pc = "done"

\* C9 as stated: a resolve call returns success only with a path that exists
\* and has an image extension, and every index entry it examined that failed
\* this check was removed from the index.
C9_EveryStaleEntryEvicted ==
  \A c \in Resolves :
     calls[c].pc = "done" =>
        /\ calls[c].valid
        /\ calls[c].stale \subseteq calls[c].evicted

\* C9: a resolve call returns success only with a path that exists and has
\* an image extension; of the index entries it examined that failed this
\* check it removed exactly those whose path has no image extension, and it
\* kept those whose path has one but whose file is missing.
C9_NonImageEntriesEvicted ==
  \A c \in Resolves :
     calls[c].pc = "done" =>
        /\ calls[c].valid
        /\ calls[c].evicted = { k \in calls[c].stale : ~isImageFile(calls[c].pre[k]) }

\* A resolve call has examined an entry without image extension, which it
\* removed, and an entry whose file was missing, which it kept
C9_Witness ==
  \E c \in Resolves :
     /\ calls[c].pc = "done"
     /\ calls[c].evicted # {}
     /\ calls[c].stale \ calls[c].evicted # {}

\* The keys under which ensureCacheIndexed enters the cache file p
IndexKeys(p) ==
  LET base == dropLast(basename(p), Len(extname(basename(p))))
  IN  {toLowerCase(base)} \cup ({normalizeDatBase(base)} \ {<<>>})

\* C10: no step of the startup index replaces an entry that points at a
\* non-thumbnail file by a thumbnail file, and when the index is complete
\* every key under which a non-thumbnail cache file was entered points at a
\* non-thumbnail file, in whatever order the directory listed its files.
C10_IndexPrefersFull ==
  /\ [][Indexing => (\A k \in FullKeys(resolvedCache) : k \in FullKeys(resolvedCache'))]_vars
  /\ [][(~cacheIndexed /\ cacheIndexed') =>
          (\A p \in readdir(fs, CacheRoot) :
              ~isThumbnailPath(p) => IndexKeys(p) \subseteq FullKeys(resolvedCache'))]_vars

\* The index is complete, the cache directory holds a thumbnail and a
\* non-thumbnail file of one image, and their common key has the latter
C10_Witness ==
  /\ cacheIndexed
  /\ \A c \in Calls : calls[c].pc \in {"idle", "entry"}
  /\ {ThumbOut, FullOut} \subseteq fs
  /\ MapGet(resolvedCache, KeyAb) = FullOut
  /\ MapGet(resolvedCache, NameAbT) = ThumbOut

\* The reference of the cached image of KeyAb by its md5 alone
ByMd5 == [imageMd5 |-> KeyAb, imageDatName |-> <<>>]

\* A resolve call of ByMd5 that has returned, in a world without containers
\* whose cache directory holds the file PlainOut (the key and an image
\* extension), with no write failed and no cache file removed
FromPlainOut(c) ==
  /\ c \in Resolves /\ calls[c].pc = "done"
  /\ calls[c].payload = ByMd5
  /\ world.files = {} /\ PlainOut \in fs /\ Undisturbed

\* C11 as stated: such a call returns success with that very file.
C11_ExactFileReturned ==
  \A c \in Calls : FromPlainOut(c) => calls[c].result = Ok(PlainOut)

\* C11: such a call returns success with an existing image file of the cache
\* directory, which is that file unless the index mapped the key to another
\* one; and a resolve call never has a task, and neither its steps nor the
\* steps of the update check it starts write a file, touch the in-flight
\* table or move a task (no container is resolved for decoding or decoded).
C11_ResolveFromCache ==
  /\ [](\A c \in Calls :
          FromPlainOut(c) =>
             /\ calls[c].result.success
             /\ calls[c].valid
             /\ dirname(calls[c].result.path) = CacheRoot
             /\ \/ calls[c].result.path = PlainOut
                \/ calls[c].result.path = MapGet(calls[c].pre, KeyAb))
  /\ [](\A c \in Resolves : tasks[c].at = "none" /\ calls[c].task = 0)
  /\ [][\A c \in Calls :
          (calls[c].op = "resolve" /\ calls'[c].pc # calls[c].pc)
          => UNCHANGED <<fs, writes, pending, tasks>>]_vars
  /\ [][checks' # checks => UNCHANGED <<fs, writes, pending, tasks>>]_vars

\* Such a call has returned that file, with a variant file of the same key
\* beside it in the cache directory
C11_Witness ==
  \E c \in Calls :
     /\ FromPlainOut(c) /\ calls[c].result = Ok(PlainOut)
     /\ FullOut \in fs

\* The task whose result a decrypt call returned: the one it found in the
\* in-flight table, else its own (0: it returned the index entry of its key)
Served(c) ==
  IF calls[c].seen # 0 THEN calls[c].seen
  ELSE IF tasks[c].at # "none" THEN c
  ELSE 0

\* A decrypt call without force leaves its entry point while the index entry
\* of its key points at an existing image file: it returns that entry at
\* once, and no task, table entry, index entry or file changes
ShortCircuit ==
  \A c \in Calls :
     LET cached == MapGet(resolvedCache, calls[c].key)
     IN  ( /\ calls[c].op = "decrypt" /\ ~calls[c].force
           /\ calls[c].pc = "entry" /\ calls'[c].pc # "entry"
           /\ cached # NoPath /\ cached \in fs /\ isImageFile(cached) )
         => /\ calls'[c].pc = "done"
            /\ calls'[c].result = Ok(cached)
            /\ UNCHANGED <<resolvedCache, pending, tasks, fs, writes>>

\* C12 as stated: the short-circuit of an unforced call, and a forced call
\* that has returned was served by a task that did not return from the
\* cache-directory probe.
C12_ForcedNeverFromCache ==
  /\ [][ShortCircuit]_vars
  /\ [](\A c \in Decrypts :
          (calls[c].pc = "done" /\ calls[c].force) =>
             /\ Served(c) # 0
             /\ tasks[Served(c)].via # "probe")

\* C12: the short-circuit of an unforced call; a forced call never returns
\* the index entry (it is served by a task), and its own task returns from
\* the cache-directory probe only in the thumbnail fallback, after its strict
\* pass found no container.
C12_ShortCircuit ==
  /\ [][ShortCircuit]_vars
  /\ [](\A c \in Decrypts :
          (calls[c].pc = "done" /\ calls[c].force) =>
             /\ Served(c) # 0
             /\ (Served(c) = c /\ tasks[c].via = "probe") => tasks[c].retries = 1)

\* An unforced call has returned the index entry of its key without a task,
\* and a forced call has returned from the probe of its thumbnail fallback
C12_Witness ==
  \E c, d \in Decrypts :
     /\ calls[c].pc = "done" /\ ~calls[c].force
     /\ Served(c) = 0 /\ calls[c].result.success
     /\ calls[d].pc = "done" /\ calls[d].force
     /\ Served(d) = d /\ tasks[d].via = "probe"

\* The thumbnail container exists, decodes and can be found for the
\* reference (by the hardlink row of its md5 or by its container name), and
\* the account and the XOR key are configured
ThumbnailFor(payload) ==
  /\ ThumbDat \in world.files /\ ThumbDat \notin world.bad
  /\ world.acct /\ world.xor
  /\ \/ payload.imageDatName # <<>>
     \/ (payload.imageMd5 = KeyAb /\ world.hlFile = basename(ThumbDat))

Persisted(c) ==
  /\ c \in Decrypts /\ calls[c].pc = "done" /\ calls[c].alone
  /\ Served(c) = c /\ tasks[c].via = "decode"
  /\ calls[c].result.success /\ Undisturbed

\* C14: after a decrypt call that decoded and persisted a container, every
\* cache-key variant of its reference (the md5, the container name, their
\* lowercased forms and their normalized bases) maps in the index to the
\* output path just written.
C14_EveryAliasUpdated ==
  \A c \in Calls :
     Persisted(c) =>
        \A k \in RefKeys(calls[c].payload) : MapGet(calls[c].post, k) = tasks[c].out

\* The key lookup and decryptDatAuto have run on a container, with an XOR
\* key configured
Decoded == codec.fn = "image" /\ codec.at = "done" /\ codec.xorKey # 0

\* C15: for a container of the legacy or of the fixed-key version, with an
\* XOR key configured, the outcome of the decode is the one it has with no
\* AES key configured, whatever the configured AES key is (so a legacy
\* container always decodes).
C15_LegacyIgnoresAesKey ==
  (Decoded /\ getDatVersion(codec.bytes) \in {0, 1})
  => /\ codec.res = decryptDatBytes(codec.bytes, codec.xorKey, <<>>)
     /\ (getDatVersion(codec.bytes) = 0 => codec.res.ok)

\* The bytes of 'cfcd208495d565ef'
FixedKey == <<99, 102, 99, 100, 50, 48, 56, 52, 57, 53, 100, 53, 54, 53, 101, 102>>

\* The key lookup has passed and decryptDatAuto has run
AutoRan ==
  /\ Decoded
  /\ codec.res.err \notin {"xorkey", "aeskey16"}

\* C16: decryptDatAuto looks at the first 6 bytes only.  On the fixed-key
\* signature it returns what decryptDatV4 returns with the built-in key,
\* whatever key was configured; on the configurable-key signature it throws
\* when no key was configured and else returns what decryptDatV4 returns
\* with the first 16 bytes of that key; on every other file, those shorter
\* than 6 bytes included, it returns what decryptDatV3 returns.
C16_DispatchByMagic ==
  AutoRan =>
    LET b    == codec.bytes
        sig  == IF Len(b) >= 6 THEN SubSeq(b, 1, 6) ELSE <<>>
    IN  IF sig = <<7, 8, 86, 49, 8, 7>>
        THEN codec.res = decryptDatV4(b, codec.xorKey, FixedKey)
        ELSE IF sig = <<7, 8, 86, 50, 8, 7>>
        THEN IF codec.aesKey = <<>>
             THEN ~codec.res.ok /\ codec.res.err = "v4key"
             ELSE /\ Len(codec.aesKey) = 16
                  /\ codec.res = decryptDatV4(b, codec.xorKey, codec.aesKey)
        ELSE codec.res = decryptDatV3(b, codec.xorKey)

\* A container of the fixed-key version, made with the built-in key, was
\* decoded to its plaintext while another key was configured
C16_Witness ==
  /\ AutoRan /\ codec.intact
  /\ codec.build.sig = SigV1 /\ codec.build.aesKey = FixedKey
  /\ codec.aesKey # <<>> /\ codec.aesKey # FixedKey
  /\ codec.xorKey = codec.build.xorKey
  /\ codec.build.aesPart # <<>> /\ codec.build.xorPart # <<>>
  /\ codec.res = Returned(codec.build.aesPart \o codec.build.rawPart \o codec.build.xorPart)

\* C17: decryptDatV3 returns as many bytes as it was given and, applied to
\* what it returned with the same one-byte key, returns the bytes it was
\* first given.
C17_XorInvolution ==
  codec.fn = "legacy" =>
    /\ (codec.at \in {"once", "done"} =>
           codec.res.ok /\ Len(codec.res.out) = Len(codec.bytes))
    /\ (codec.at = "done" =>
           codec.res2.ok /\ codec.res2.out = codec.bytes)

\* Three bytes were decoded with the key 55 into other bytes and back
C17_Witness ==
  /\ codec.fn = "legacy" /\ codec.at = "done"
  /\ Len(codec.bytes) = 3 /\ codec.xorKey = 55
  /\ codec.res.out # codec.bytes
  /\ codec.res2.out = codec.bytes

\* decryptDatV4 has run on a container as the encoder made it, with the keys
\* it was made with
Recovered ==
  /\ codec.fn = "hybrid" /\ codec.at = "done" /\ codec.intact
  /\ codec.xorKey = codec.build.xorKey /\ codec.aesKey = codec.build.aesKey

\* C18: for a container as the encoder made it, decoded with the keys it was
\* made with, decryptDatV4 returns the enciphered part's plaintext, then the
\* raw part, then the XORed part decoded, that is the original plaintext.
C18_HybridRoundTrip ==
  Recovered =>
    /\ codec.res.ok
    /\ codec.res.out = codec.build.aesPart \o codec.build.rawPart \o codec.build.xorPart

\* A container with three non-empty parts, the enciphered one of a full
\* block, was decoded
C18_Witness ==
  /\ Recovered /\ codec.res.ok
  /\ Len(codec.build.aesPart) = 16
  /\ codec.build.rawPart # <<>> /\ codec.build.xorPart # <<>>

\* aesSize as the header of a container has it, for the sizes from 0 up
HeaderAesSize ==
  codec.bytes[7] + 256 * codec.bytes[8] + 65536 * codec.bytes[9]
    + 16777216 * codec.bytes[10]

\* C19: for an aesSize >= 0 in the header, alignedAesSize is the next
\* multiple of 16 above aesSize (aesSize + 16 when aesSize is a multiple of
\* 16, 0 included), and decryptDatV4 throws its length error exactly when
\* alignedAesSize exceeds the length of the payload after the header.
C19_AlignedSize ==
  ( /\ codec.fn = "hybrid" /\ codec.at = "done"
    /\ Len(codec.bytes) >= 15 /\ codec.bytes[10] < 128 ) =>
    LET a  == HeaderAesSize
        al == alignedAesSize(a)
    IN  /\ al % 16 = 0
        /\ a < al /\ al <= a + 16
        /\ al = ((a \div 16) + 1) * 16
        /\ (al > Len(codec.bytes) - 15) = (~codec.res.ok /\ codec.res.err = "aeslen")

\* A container whose header gives an aesSize of 16 was decoded: two blocks
\* were deciphered
C19_Witness ==
  /\ codec.fn = "hybrid" /\ codec.at = "done" /\ codec.intact
  /\ HeaderAesSize = 16
  /\ codec.res.ok /\ Len(codec.res.out) >= 16

\* C20: strictRemovePadding throws on empty data, on a last byte p that is
\* 0, above 16 or above the length of the data, and when one of the last p
\* bytes is not p; else it returns the data without its last p bytes.
C20_StrictUnpad ==
  (codec.fn = "unpad" /\ codec.at = "done") =>
    LET d == codec.bytes
        p == IF Len(d) = 0 THEN 0 ELSE d[Len(d)]
        illegal == \/ Len(d) = 0
                   \/ p = 0 \/ p > 16 \/ p > Len(d)
                   \/ \E i \in 1..Len(d) : i > Len(d) - p /\ d[i] # p
    IN  IF illegal THEN ~codec.res.ok
        ELSE codec.res = Returned(SubSeq(d, 1, Len(d) - p))

\* A full block of padding was removed from 17 bytes
C20_Witness ==
  /\ codec.fn = "unpad" /\ codec.at = "done"
  /\ Len(codec.bytes) = 17 /\ codec.bytes[17] = 16
  /\ codec.res = Returned(<<7>>)

\* A hybrid container that is malformed: shorter than the 15-byte header, or
\* with an aligned AES size above the length of the payload, or with an
\* xorSize that is negative or above the bytes left after the AES segment
Malformed(bytes) ==
  \/ Len(bytes) < 15
  \/ LET data    == subarray(bytes, 15, Len(bytes))
         aesSize == bytesToInt32(SubSeq(bytes, 7, 10))
         xorSize == bytesToInt32(SubSeq(bytes, 11, 14))
         aligned == alignedAesSize(aesSize)
     IN  \/ aligned > Len(data)
         \/ xorSize < 0
         \/ xorSize > Len(subarray(data, aligned, Len(data)))

\* C21: decryptDatV4 throws, returning no bytes, on every malformed
\* container (too short, aligned AES size above the payload, xorSize negative
\* or above what is left after the AES segment); whatever the decoder throws
\* in a decrypt call, the call returns a failure result carrying the error.
C21_MalformedFails ==
  codec.at = "done" =>
    /\ (codec.fn = "hybrid" /\ Malformed(codec.bytes))
         => (~codec.res.ok /\ codec.res.out = <<>>)
    /\ (codec.fn = "image" /\ AutoRan /\ getDatVersion(codec.bytes) # 0
          /\ Malformed(codec.bytes))
         => (~codec.res.ok /\ codec.res.out = <<>>)
    /\ (codec.fn = "image" /\ ~codec.res.ok)
         => (~codec.result.success /\ codec.result.error = codec.res.err
               /\ codec.result.error # "")

\* A container whose xorSize was overwritten with -1, otherwise as the
\* encoder made it, was given to decrypt with its keys: the XOR length error
\* came back as a failure result
C21_Witness ==
  /\ codec.fn = "image" /\ codec.at = "done"
  /\ Len(codec.bytes) >= 15
  /\ bytesToInt32(SubSeq(codec.bytes, 11, 14)) = -1
  /\ codec.res.err = "xorlen"
  /\ ~codec.result.success

\* resolveHardlinkPath has run on an index that answers, with a row for the
\* hash whose three columns are filled
RowFound ==
  /\ lookup.fn = "hardlink" /\ lookup.at = "done"
  /\ world.hl = "ok"
  /\ world.hlFile # <<>> /\ world.dir1 # "" /\ world.dir2 # ""

\* accountDir/dir1/dirName of the row: dirName is the alias of (dir2,
\* sessionId) when a session id is given and there is one, else dir2
RowDir ==
  world.dir1 \o "/" \o
    (IF world.session # "" /\ world.dirTable = "ok" /\ world.dirName # ""
     THEN world.dirName ELSE world.dir2)

\* The row's path if it exists, else that path with .dat appended if it
\* exists, else null
RowPath ==
  IF join(RowDir, world.hlFile) \in fs THEN join(RowDir, world.hlFile)
  ELSE IF join(RowDir, world.hlFile \o ExtDat) \in fs
  THEN join(RowDir, world.hlFile \o ExtDat)
  ELSE NoPath

\* The row names a container (its file name ends in .dat) whose base has no
\* one-letter variant suffix
RowUnsuffixed ==
  LET lower == toLowerCase(world.hlFile)
      base  == SubSeq(lower, 1, Len(lower) - 4)
  IN  /\ Len(lower) >= 4
      /\ SubSeq(lower, Len(lower) - 3, Len(lower)) = <<".","d","a","t">>
      /\ ~( /\ Len(base) >= 2
            /\ base[Len(base) - 1] \in {".", "_"}
            /\ \E i \in 1..26 : LowerChars[i] = base[Len(base)] )

\* C22 as stated: for a row {dir1, dir2, fileName} found for the hash, the
\* lookup returns accountDir/dir1/dirName/fileName if it exists, else that
\* path with the container extension appended if it exists, else null
\* (dirName: the alias when a session id is given and an alias exists, else
\* dir2), and what it returns exists.
C22_RowPathReturned ==
  RowFound =>
    /\ lookup.res = RowPath
    /\ (lookup.res # NoPath => lookup.res \in fs)

\* C22, amended: the same for every row but one whose file name ends in the
\* container extension with a base that has no one-letter variant suffix;
\* for such a row the lookup returns null, whatever exists.
C22_FilteredRowPathReturned ==
  RowFound =>
    /\ lookup.res = (IF RowUnsuffixed THEN NoPath ELSE RowPath)
    /\ (lookup.res # NoPath => lookup.res \in fs)

\* A row without extension, with a session id and an alias: the lookup
\* returned the container in the alias directory, the row's own path and the
\* path under dir2 being there or not
C22_Witness ==
  /\ RowFound
  /\ world.hlFile = Hash /\ world.session = "s" /\ world.dirName = "al"
  /\ join("d1/al", Hash) \notin fs
  /\ join("d1/d2", Hash \o ExtDat) \in fs
  /\ lookup.res = join("d1/al", Hash \o ExtDat)

\* resolveHardlinkPath and resolveDatPath have run
LookedUp == lookup.fn = "hardlink" /\ lookup.at = "done"

\* The account directory with an index that answers and has no row
WithoutRow == [world EXCEPT !.hl = "ok", !.hlFile = <<>>]

\* resolveDatPath went on as it does on the account directory w: the same
\* path returned at once or the same search begun, and the same index left
WentOnAsOn(w) ==
  LET r == resolveDatPath(w, EmptyMap, fs, lookup.payload, lookup.allowThumbnail, TRUE)
  IN  /\ lookup.next = r.at
      /\ lookup.res2 = r.val
      /\ lookup.rc = r.rc

\* C23 as stated: any failure inside the lookup (hardlink.db cannot be
\* opened, the content table is missing, the row query throws, the alias
\* query throws) makes it return null without throwing, and resolveDatPath
\* goes on exactly as if the index had no row.
C23_AnyFailureIsNoHit ==
  ( /\ LookedUp
    /\ \/ world.hl \in {"noopen", "notable", "queryerr"}
       \/ (world.hl = "ok" /\ world.dirTable = "err" /\ world.session # "") ) =>
    /\ lookup.res = NoPath
    /\ WentOnAsOn(WithoutRow)

\* C23, amended: the lookup never throws; when hardlink.db cannot be opened,
\* has no content table, or the row query throws, it returns null and
\* resolveDatPath goes on exactly as if the index had no row; when the alias
\* query throws, lookup and resolveDatPath do what they do with no alias
\* table, that is with dir2 as the directory name.
C23_FailureIsNoHit ==
  LookedUp =>
    /\ lookup.res # Threw /\ lookup.res2 # Threw
    /\ (world.hl \in {"noopen", "notable", "queryerr"} =>
          /\ lookup.res = NoPath
          /\ WentOnAsOn(WithoutRow))
    /\ (world.hl = "ok" /\ world.dirTable = "err" =>
          /\ lookup.res = resolveHardlinkPath([world EXCEPT !.dirTable = "none"], fs, KeyAb)
          /\ WentOnAsOn([world EXCEPT !.dirTable = "none"]))

\* hardlink.db could not be opened while the container of the row was there:
\* the lookup returned null and resolveDatPath began the search by name
C23_Witness ==
  /\ LookedUp
  /\ world.hl = "noopen"
  /\ world.hlFile = Hash \o <<"_","h">> \o ExtDat
  /\ join("d1/al", world.hlFile) \in fs
  /\ lookup.payload.imageDatName # <<>>
  /\ lookup.res = NoPath
  /\ lookup.next = "walk"

\* searchDatFile(accountDir, Hash, true, false) has returned
Searched ==
  /\ lookup.fn = "search" /\ lookup.at \in {"once", "done"}
  /\ lookup.allowThumbnail /\ ~lookup.thumbOnly

\* The file matches the name searched for by the equality of the normalized
\* bases or by the pattern that tolerates a variant suffix, not merely by
\* containing it
StrictMatch(p) ==
  LET lower == toLowerCase(basename(p))
  IN  \/ normalizeDatBase(dropLast(lower, 4)) = normalizeDatBase(lookup.datName)
      \/ datPattern(lookup.datName, lower)

\* C24: the search for N finds a container when N.dat, N_t.dat or N.c.dat is
\* there, and it returns a file that merely contains N in its name only when
\* no file matches N by normalized base or by the suffix-tolerant pattern.
C24_StrictBeforeSubstring ==
  Searched =>
    /\ ( (\E v \in {<<>>, <<"_","t">>, <<".","c">>} :
             join(AttachDir, lookup.datName \o v \o ExtDat) \in fs)
         => lookup.res # NoPath )
    /\ ( (lookup.res # NoPath /\ ~StrictMatch(lookup.res))
         => \A p \in readdir(fs, AttachDir) : ~StrictMatch(p) )

\* C25: a container resolution with thumbnails not allowed never yields a
\* thumbnail-classified path, be it from the hardlink lookup, from a
\* remembered path or from the search: what a task holds as the result of
\* resolveDatPath or of searchDatFile while thumbnails are not allowed is
\* null or no thumbnail.
C25_NoThumbnailWhenDisallowed ==
  \A t \in Calls :
     (tasks[t].at # "none" /\ ~tasks[t].allow) =>
        \/ tasks[t].val = NoPath
        \/ ~isThumbnailPath(tasks[t].val)

\* A forced task searches by name, thumbnails not allowed, while the
\* thumbnail container is remembered for that name and exists
C25_Witness ==
  \E t \in Calls :
     /\ tasks[t].at = "walk" /\ ~tasks[t].allow
     /\ MapGet(resolvedCache, datKey(tasks[t].target)) = ThumbDat
     /\ ThumbDat \in fs

\* C26: searchDatFile(accountDir, name, true, thumbOnly = true) returns null
\* or a thumbnail container, also after an earlier search for the same name
\* has returned, and left remembered, a container that is no thumbnail.
C26_ThumbOnlySearch ==
  (lookup.fn = "search" /\ lookup.at = "done") =>
     \/ lookup.res2 = NoPath
     \/ isThumbnailDat(toLowerCase(basename(lookup.res2)))

\* C27: resolveAccountDir returns null or a directory that passes the marker
\* check of isAccountDir: dbPath itself with a marker, or an entry of dbPath
\* that is a directory with a marker.
C27_ValidatedDirectory ==
  (lookup.fn = "account" /\ lookup.at = "done") =>
     \/ lookup.dir.kind = "null"
     \/ (lookup.dir.kind = "root" /\ lookup.rootMarked)
     \/ /\ lookup.dir.kind = "entry"
        /\ \E e \in lookup.root :
              e.name = lookup.dir.name /\ e.isDir /\ e.marked

\* The file name ends in the container extension and its base has a
\* one-letter variant suffix or looks like a content hash
GenuineByName(name) ==
  LET lower == toLowerCase(name)
  IN  /\ endsWith(lower, ExtDat)
      /\ isLikelyImageDatBase(dropLast(lower, 4))

\* C30: hardlink lookup and search accept a container exactly when its base
\* has a variant suffix or looks like a content hash: a row naming an
\* existing container is returned exactly when the base has one of the two
\* shapes, and the first search for a name finds a container whenever some
\* matching container of one of the two shapes is there (a bare <hash>.dat
\* among them) and returns none of another shape.
C30_GenuineByEitherShape ==
  /\ ( /\ RowFound
       /\ endsWith(toLowerCase(world.hlFile), ExtDat)
       /\ join(RowDir, world.hlFile) \in fs )
       => (lookup.res # NoPath <=> GenuineByName(world.hlFile))
  /\ Searched =>
       /\ ( (\E p \in readdir(fs, AttachDir) :
               /\ GenuineByName(basename(p))
               /\ matchesDatName(toLowerCase(basename(p)), lookup.datName))
            => lookup.res # NoPath )
       /\ (lookup.res # NoPath => GenuineByName(basename(lookup.res)))

\* A call of resolveCachedImage returns in this step
Returns(c) ==
  /\ calls[c].pc # "done"
  /\ calls'[c].pc = "done"
  /\ calls'[c].op = "resolve"

\* The call has returned the image at a thumbnail-classified path
ThumbHit(call) ==
  /\ call.op = "resolve" /\ call.pc = "done"
  /\ call.result.success
  /\ isThumbnailPath(call.result.path)

C28_NoCallIsRejected ==
  \A c \in Calls : calls[c].pc # "rejected"

\* C31: every call of decryptImage that has begun returns in the end, and
\* the entry of the in-flight table for its task is removed in the end,
\* whatever the search worker of its task does.
C31_DecryptSettles ==
  \A c \in Calls :
     (calls[c].op = "decrypt" /\ Running(c))
        ~> (calls[c].pc = "done" /\ \A k \in DOMAIN pending : pending[k] # c)

\* The first searchDatFile of a search job has returned
SearchedOnce == lookup.fn = "search" /\ lookup.at \in {"once", "done"}

\* The containers below the search root that survive the filters of the
\* search the job began with
Survivors ==
  walkCandidates(readdir(fs, AttachDir), toLowerCase(lookup.datName),
                 lookup.allowThumbnail, lookup.thumbOnly)

\* The name has a one-letter variant suffix before the container extension
Suffixed(p) ==
  LET base == dropLast(toLowerCase(basename(p)), 4)
  IN  /\ Len(base) >= 2
      /\ base[Len(base) - 1] \in {".", "_"}
      /\ IsLowerAlpha(base[Len(base)])

\* The container is a thumbnail (variant t) or a compressed variant (c)
ThumbVariant(p) ==
  \E sep \in {".", "_"} : includes(toLowerCase(basename(p)), <<sep, "t">> \o ExtDat)

CompressedVariant(p) ==
  \E sep \in {".", "_"} : includes(toLowerCase(basename(p)), <<sep, "c">> \o ExtDat)

\* The pool the result is to come from: the suffixed survivors if there are
\* any, of these the ones that are no thumbnails if there are any and the
\* search is not for thumbnails only, and of these the originals if there
\* are any
PreferredPool ==
  LET suffixed == { p \in Survivors : Suffixed(p) }
      pool1    == IF suffixed # {} THEN suffixed ELSE Survivors
      full     == { p \in pool1 : ~ThumbVariant(p) }
      pool2    == IF ~lookup.thumbOnly /\ full # {} THEN full ELSE pool1
      original == { p \in pool2 : ~ThumbVariant(p) /\ ~CompressedVariant(p) }
  IN  IF original # {} THEN original ELSE pool2

\* C32: the search returns null exactly when no candidate survives the
\* filters, and otherwise a candidate of the preferred pool: suffixed before
\* unsuffixed, no thumbnail before thumbnail unless thumbOnly, and an
\* original before a thumbnail or compressed variant.
C32_PreferredPool ==
  SearchedOnce =>
     IF Survivors = {} THEN lookup.res = NoPath
     ELSE lookup.res \in PreferredPool

\* Thumbnail, compressed variant and two originals survived: the search
\* returned one of the originals
C32_Witness ==
  /\ SearchedOnce
  /\ lookup.allowThumbnail /\ ~lookup.thumbOnly
  /\ \E p \in Survivors : ThumbVariant(p)
  /\ \E p \in Survivors : CompressedVariant(p)
  /\ Cardinality(PreferredPool) = 2
  /\ lookup.res \in PreferredPool

\* How many levels below the search root a directory lies
LevelOf(d) == d.c + (IF d.s THEN 1 ELSE 0)

\* The directories above d, the search root among them
Above(d) == { ChainDir(i) : i \in 0..(IF d.s THEN d.c ELSE d.c - 1) }

\* The directories of the tree that the walk is to list: at most maxDepth
\* levels below the root, with a stat that succeeds, below directories that
\* can be listed and stat'ed
ToList ==
  { d \in { ChainDir(i) : i \in 0..Deep } \cup { SideDir(i) : i \in lookup.tree.sides } :
      /\ LevelOf(d) <= lookup.maxDepth
      /\ d \notin lookup.tree.broken
      /\ \A a \in Above(d) : a \notin lookup.tree.broken /\ a \notin lookup.tree.unreadable }

\* C33: the walk lists no directory more than maxDepth levels below the
\* root and none twice, so it ends after at most as many passes as there are
\* directories; when it has ended it has listed every directory within the
\* depth that it could come to, those beside and after an unreadable
\* directory or entry included, and it returns a container exactly when one
\* of the directories it could read holds one.
C33_WalkBounded ==
  lookup.fn = "walk" =>
     /\ \A i \in 1..Len(lookup.listed) :
           /\ LevelOf(lookup.listed[i]) <= lookup.maxDepth
           /\ \A j \in 1..Len(lookup.listed) : lookup.listed[i] = lookup.listed[j] => i = j
     /\ \A i \in 1..Len(lookup.stack) : lookup.stack[i].depth = LevelOf(lookup.stack[i].dir)
     /\ Len(lookup.listed) <= Deep + 1 + Cardinality(lookup.tree.sides)
     /\ lookup.at = "done" =>
           /\ { lookup.listed[i] : i \in 1..Len(lookup.listed) } = ToList
           /\ (lookup.res # NoPath) <=>
                 (\E d \in ToList : d \in lookup.tree.holds /\ d \notin lookup.tree.unreadable)
           /\ lookup.res # NoPath =>
                 \E d \in ToList : d \in lookup.tree.holds /\ lookup.res.dir = dirPath(d)

\* The account-wide walk has ended on a tree ten levels deep: it went on
\* past the directory that could not be read, listed the levels 0 to 8 and
\* not the ninth, and found neither the container in the unreadable
\* directory nor the one of the ninth level
C33_Witness ==
  /\ lookup.fn = "walk" /\ lookup.at = "done"
  /\ lookup.maxDepth = SearchDepth
  /\ lookup.tree.unreadable = {SideDir(2)}
  /\ lookup.tree.sides = {2, 9}
  /\ Len(lookup.listed) = 10
  /\ lookup.tree.holds = {SideDir(2), ChainDir(9)}
  /\ lookup.res = NoPath

\* C34: the output path made for a container is classified as a thumbnail
\* by isThumbnailPath exactly when the container is (variant _t or .t), so
\* that a hit on the output starts the update check exactly for the outputs
\* of thumbnail containers.
C34_ClassificationPreserved ==
  (lookup.fn = "output" /\ lookup.at = "done") =>
     /\ isThumbnailPath(lookup.outputPath) <=> isThumbnailPath(lookup.datPath)
     /\ startsUpdateCheck(isThumbnailPath(lookup.outputPath), {}, lookup.datPath.name)
          <=> isThumbnailPath(lookup.datPath)

\* The task has called writeFile and the write has not completed
Writing(t) == tasks[t].at = "write"

\* C35: no two tasks of decryptImageInternal are at the same time in a
\* writeFile to the same output path, whatever the cache keys of the calls
\* that started them.
C35_OneWriterPerOutput ==
  \A t1, t2 \in Calls :
     (t1 # t2 /\ Writing(t1) /\ Writing(t2)) => tasks[t1].out # tasks[t2].out

\* decryptDatV4 has returned bytes for a file with a whole header
HybridDecoded ==
  /\ codec.fn = "hybrid" /\ codec.at = "done"
  /\ Len(codec.bytes) >= HeaderLen
  /\ codec.res.ok

\* The header fields aesSize and xorSize of the file as signed 32-bit
\* numbers, and its payload
SignedAesSize == bytesToInt32(SubSeq(codec.bytes, 7, 10))
HeaderXorSize == bytesToInt32(SubSeq(codec.bytes, 11, 14))
PayloadOf(bytes) == SubSeq(bytes, HeaderLen + 1, Len(bytes))

\* What the decoder is to return when the first n bytes of the payload are
\* the AES segment: these decrypted and unpadded, then the raw region, then
\* the last xorSize bytes XORed with the key
DecodedWithAesSegment(n) ==
  LET data == PayloadOf(codec.bytes)
      aes  == SubSeq(data, 1, n)
      rest == SubSeq(data, n + 1, Len(data))
      raw  == SubSeq(rest, 1, Len(rest) - HeaderXorSize)
      xor  == SubSeq(rest, Len(rest) - HeaderXorSize + 1, Len(rest))
  IN  (IF n > 0 THEN strictRemovePadding(decipherEcb(codec.aesKey, aes).out).out ELSE <<>>)
        \o raw
        \o [i \in 1..Len(xor) |-> ByteOf(BitXor(xor[i], codec.xorKey))]

\* C36: whenever decryptDatV4 returns bytes, whatever the 32-bit value of
\* aesSize in the header, the aligned AES size lies between 0 and the length
\* of the payload, and the bytes returned are the first alignedAesSize bytes
\* decrypted, followed by the raw and the XOR region of the rest.
C36_AesSegmentWithinPayload ==
  HybridDecoded =>
     /\ 0 <= alignedAesSize(SignedAesSize)
     /\ alignedAesSize(SignedAesSize) <= Len(PayloadOf(codec.bytes))
     /\ codec.res.out = DecodedWithAesSegment(alignedAesSize(SignedAesSize))


\* Call c2 began after decryptImage of the same reference had returned an
\* output as call c1, was not forced and has returned, and the output has
\* been in place ever since c1 returned: it is there, and no cache file has
\* been removed or none has been written since
Again(c1, c2) ==
  /\ c1 < c2
  /\ calls[c1].op = "decrypt" /\ calls[c1].pc = "done" /\ calls[c1].result.success
  /\ calls[c2].pc = "done" /\ calls[c2].alone /\ ~calls[c2].force
  /\ calls[c2].payload = calls[c1].payload
  /\ calls[c1].result.path \in fs
  /\ (removals = 0 \/ calls[c2].postWrites = calls[c1].postWrites)

\* C37: after decryptImage of a reference has returned an output, and while
\* that file exists and no forced decryptImage comes between,
\* resolveCachedImage and a decryptImage without force of the same reference
\* succeed with that same output and decode nothing
C37_OutputServedAgain ==
  \A c1, c2 \in Calls :
     Again(c1, c2) =>
        /\ calls[c2].result = Ok(calls[c1].result.path)
        /\ tasks[c2].decodes = 0
\* C38: decryptImage fails for want of an XOR key only when none is
\* configured; under every configured key, 0 as well, and an AES key string
\* that resolveAesKey accepts, a legacy container is decoded by XOR of each
\* byte with the key
C38_MissingKeyOnlyWhenUnset ==
  (codec.fn = "image" /\ codec.at = "done") =>
     /\ codec.res.err = "xorkey" => ~codec.xorSet
     /\ ( /\ codec.xorSet
          /\ getDatVersion(codec.bytes) = 0
          /\ resolveAesKey(codec.aesKeyRaw).ok )
        => /\ codec.result.success
           /\ codec.res = decryptDatV3(codec.bytes, codec.xorKey)
\* C39: what normalizeDatBase returns is a canonical base: normalizeDatBase
\* returns it unchanged, and it ends neither in the container extension nor
\* in a variant suffix of two characters
C39_NormalizedIsCanonical ==
  (lookup.fn = "normalize" /\ lookup.at = "done") =>
     /\ lookup.base2 = lookup.base
     /\ ~endsWith(lookup.base, ExtDat)
     /\ ~hasXVariant(lookup.base)
====================
